---------------------------- MODULE Spec2Model ----------------------------
(***************************************************************************)
(* Session / negotiation state machine of the Jarvis-AI front end          *)
(* (src/src/app/page.tsx, component Home).                                 *)
(*                                                                         *)
(* React state is modelled by one variable per useState / useRef cell.     *)
(* Every action is one event-loop task: a UI event handler, a network      *)
(* completion (the continuation after an await) or a timer callback.       *)
(* A handler that awaits is split at the await: the first half records the *)
(* closure it captured (the state values of the render it was created in)  *)
(* in `ops` / `boots`, and the second half reads those captured values,    *)
(* not the current state, exactly as the JavaScript closure does.  State   *)
(* updates written with an updater function (setX(prev => ...)) act on the *)
(* current value; updates written with a value overwrite it.               *)
(*                                                                         *)
(* Strings that the code parses are sequences of symbols: single           *)
(* characters, plus a few multi-character tokens that the code never looks *)
(* inside.  All other texts are sequences of such tokens as well.          *)
(***************************************************************************)
EXTENDS Integers, Sequences, FiniteSets, TLC

VARIABLES
    session,                        \* useSession(): 0 = none, n = n-th session object
    socket,                         \* useState socket: 0 = null, n = n-th Socket.IO connection
    liveSocket,                     \* environment: the connection that is not disconnected (0 = none)
    joined,                         \* environment: rooms the live connection is a member of
    agents,                         \* useState agents
    selectedAgent,                  \* useState selectedAgent
    currentAgentRoom,               \* useState currentAgentRoom
    messages,                       \* useState messages
    recentlyPromptedProjectIds,     \* useState recentlyPromptedProjectIds
    promptedCandidateMessageIdsRef, \* useRef promptedCandidateMessageIdsRef.current
    loadingMessageIntervalRef,      \* useRef loadingMessageIntervalRef.current (0 = null)
    intervals,                      \* environment: live setInterval timers
    cooldownTimers,                 \* environment: pending setTimeout evictions
    ops,                            \* in-flight commands: continuations waiting on /send_message
    boots,                          \* in-flight fetchAgents / initializeUserAgents continuations
    nextId,                         \* source of fresh ids (Date.now() / Math.random())
    issued,                         \* number of operations started so far (bounds the model)
    lastSelect,                     \* history: what the last handleAgentSelect call did
    lastHide,                       \* history: what the last removeLoadingIndicator call did
    lastReply,                      \* history: the last /send_message result and the message it produced
    created,                        \* history: candidate-selection messages created so far
    settled,                        \* history: accept/reject actions that have completed
    exhaustions,                    \* history: exhaustion events (a list became empty, first time)
    caches,                         \* useState meetings / projects / tasks: whose data each holds
    fetches,                        \* in-flight fetchMeetings / fetchProjects / fetchTasks requests
    selectedAgentRef,               \* useRef selectedAgentRef.current
    lastNotify,                     \* history: what the last push notification handler did
    lastAttempt,                    \* history: the command that has just been attempted
    lastProjects                    \* history: the /projects response that has just been normalised

vars == << session, socket, liveSocket, joined, agents, selectedAgent, currentAgentRoom,
           messages, recentlyPromptedProjectIds, promptedCandidateMessageIdsRef,
           loadingMessageIntervalRef, intervals, cooldownTimers, ops, boots, nextId,
           issued, lastSelect, lastHide, lastReply, created, settled, exhaustions,
           caches, fetches, selectedAgentRef, lastNotify, lastAttempt,
           lastProjects >>

\* The data caches, the requests that fill them, and the live reference to the agent
dataVars == << caches, fetches, selectedAgentRef >>

-----------------------------------------------------------------------------
(* Strings *)

\* The body of candidatePrefix up to, not including, its closing quote.  It is the
\* only symbol that contains the words "project ".
PrefixBody == "Here are the best-suited candidates for your project "

candidatePrefix == << PrefixBody, "'" >>

\* projectIdMatch ? projectIdMatch[1] : undefined
Undefined == << "undefined" >>

Min(S) == CHOOSE i \in S : \A j \in S : i <= j

\* String.prototype.startsWith
StartsWith(s, p) == Len(s) >= Len(p) /\ SubSeq(s, 1, Len(p)) = p

\* String.prototype.indexOf: 0-based index of the first occurrence, -1 when there is none
IndexOf(s, pat) ==
    LET hits == { i \in 1..(Len(s) - Len(pat) + 1) : SubSeq(s, i, i + Len(pat) - 1) = pat }
    IN  IF hits = {} THEN -1 ELSE Min(hits) - 1

\* String.prototype.substring(from) and substring(0, to), 0-based
SubstringFrom(s, from) == SubSeq(s, from + 1, Len(s))
SubstringTo(s, to) == SubSeq(s, 1, IF to > Len(s) THEN Len(s) ELSE to)

\* String.prototype.trim
RECURSIVE TrimLeft(_)
TrimLeft(s) == IF s # << >> /\ Head(s) = " " THEN TrimLeft(Tail(s)) ELSE s
RECURSIVE TrimRight(_)
TrimRight(s) ==
    IF s # << >> /\ s[Len(s)] = " " THEN TrimRight(SubSeq(s, 1, Len(s) - 1)) ELSE s
Trim(s) == TrimRight(TrimLeft(s))

\* agentResponseText.match(/project '([^']*)'/): the leftmost "project '" that is
\* followed, after characters other than a quote, by a quote; group 1.
ProjectIdMatch(s) ==
    LET starts == { i \in 1..(Len(s) - 1) :
                      /\ s[i] = PrefixBody
                      /\ s[i + 1] = "'"
                      /\ \E j \in (i + 2)..Len(s) : s[j] = "'" }
    IN  IF starts = {} THEN Undefined
        ELSE LET i == Min(starts)
                 j == Min({ k \in (i + 2)..Len(s) : s[k] = "'" })
             IN  SubSeq(s, i + 2, j - 1)

\* JSON texts.  A candidate object literal ({"name": "a", ...}) is one token.
CandidateTokens == { "{a}", "{b}" }
CandidateName(tok) == IF tok = "{a}" THEN "a" ELSE "b"

IsJsonList(t) ==
    /\ Len(t) >= 2
    /\ t[1] = "["
    /\ t[Len(t)] = "]"
    /\ \/ Len(t) = 2
       \/ /\ Len(t) % 2 = 1
          /\ \A i \in 2..(Len(t) - 1) :
                IF i % 2 = 0 THEN t[i] \in CandidateTokens ELSE t[i] = ","

\* JSON.parse: ok = FALSE stands for the SyntaxError it throws.  A text that is
\* valid JSON is accepted whatever it denotes: a list, null, a number, an object.
JSONParse(s) ==
    LET t == SelectSeq(s, LAMBDA c : c # " ")
    IN  IF IsJsonList(t)
        THEN [ ok |-> TRUE, kind |-> "list",
               items |-> [ i \in 1..((Len(t) - 1) \div 2) |-> CandidateName(t[2 * i]) ] ]
        ELSE IF t = << "null" >> THEN [ ok |-> TRUE, kind |-> "null", items |-> << >> ]
        ELSE IF t = << "0" >> THEN [ ok |-> TRUE, kind |-> "number", items |-> << >> ]
        ELSE IF Len(t) = 1 /\ t[1] \in CandidateTokens
             THEN [ ok |-> TRUE, kind |-> "object", items |-> << >> ]
        ELSE [ ok |-> FALSE, kind |-> "error", items |-> << >> ]

-----------------------------------------------------------------------------
(* Chat messages *)

\* interface ChatMessage.  candidatesKind tells what the candidates field holds:
\* "absent" (no field), "list" (an array, in candidates), or the non-array value
\* JSON.parse returned ("null", "number", "object").
ChatMessage(id, type, text) ==
    [ id |-> id, type |-> type, text |-> text,
      messageSubType |-> "none", candidatesKind |-> "absent", candidates |-> << >>,
      projectId |-> Undefined, isLoadingPlaceholder |-> FALSE, promptIssued |-> FALSE ]

\* prevMsgs.filter(m => m.id !== idToRemove)
RemoveById(msgs, id) == SelectSeq(msgs, LAMBDA m : m.id # id)

\* prevMsgs.map(m => m.id === id ? { ...m, text } : m)
RECURSIVE SetText(_, _, _)
SetText(msgs, id, text) ==
    IF msgs = << >> THEN << >>
    ELSE << IF Head(msgs).id = id THEN [ Head(msgs) EXCEPT !.text = text ] ELSE Head(msgs) >>
            \o SetText(Tail(msgs), id, text)

HasId(msgs, id) == \E i \in 1..Len(msgs) : msgs[i].id = id

-----------------------------------------------------------------------------
(* Command Gateway: _postMessageToAgent *)

NoAgent == "none"

\* What the request to /send_message comes back with:
\*   "throw"   fetch rejected (transport failure); text is the Error's message
\*   "status"  a non-success HTTP status; text is errorData.error ("" when it is missing)
\*   "error"   a success payload with an error field; text is that field
\*   "ok"      a success payload; text is data.response ("" when it is missing)
Net(kind, text) == [ kind |-> kind, text |-> text ]

ProcessedText == << "(Agent processed the command)" >>

\* The message the candidate branch builds when JSON.parse returned
CandidateMessage(id, introText, parsed, currentProjectId) ==
    [ ChatMessage(id, "agent", introText) EXCEPT
        !.messageSubType = "candidate_selection",
        !.candidatesKind = parsed.kind,
        !.candidates = parsed.items,
        !.projectId = currentProjectId,
        !.promptIssued = FALSE ]

\* Lines 897-928: the message a success payload without error field is turned into.
\* (Without a "':" in the text endOfPrefix is 1 and the JSON text is the response
\* less its first character; here it is the response less its first symbol.  Neither
\* is valid JSON.)
ClassifyResponse(id, response) ==
    LET agentResponseText == IF response = << >> THEN ProcessedText ELSE response
        endOfPrefix == IndexOf(agentResponseText, << "'", ":" >>) + 2
        jsonString == Trim(SubstringFrom(agentResponseText, endOfPrefix))
        currentProjectId == ProjectIdMatch(agentResponseText)
        introText == SubstringTo(agentResponseText, endOfPrefix)
        parsed == JSONParse(jsonString)
    IN  IF StartsWith(agentResponseText, candidatePrefix)
        THEN IF parsed.ok
             THEN CandidateMessage(id, introText, parsed, currentProjectId)
             ELSE ChatMessage(id, "agent", agentResponseText)
        ELSE ChatMessage(id, "agent", agentResponseText)

WithReplyDropped(prev, reply) == prev

\* Lines 894, 927, 933: setMessages(prev => [...prev, reply]), an update of the
\* message list that is current when the request completes
WithReply(prev, reply) == Append(prev, reply)

\* Line 890: errorData.error || `HTTP error! status: ${response.status}`
StatusText(text) == IF text = << >> THEN << "HTTP error! status: 500" >> ELSE text

PostMessageReplyPlain(id, net) ==
    IF net.kind = "ok" THEN ClassifyResponse(id, net.text)
    ELSE ChatMessage(id, "agent", net.text)

\* Lines 883-934: the one message _postMessageToAgent appends for a request that
\* was sent (the caller has checked that an agent is selected)
PostMessageReply(id, net) ==
    CASE net.kind = "ok" -> ClassifyResponse(id, net.text)
      [] net.kind = "error" -> ChatMessage(id, "system", << "Agent error: " >> \o net.text)
      [] net.kind = "status" -> ChatMessage(id, "system", StatusText(net.text))
      [] OTHER -> ChatMessage(id, "system", net.text)

-----------------------------------------------------------------------------
(* Progress Indicator: displayLoadingIndicator / removeLoadingIndicator *)

projectPlanningMessages ==
    << "Looking through past projects...",
       "Searching for suitable approaches...",
       "Analyzing project requirements...",
       "Generating project plan...",
       "Finalizing project structure..." >>

NoOverride == "undefined"

\* Lines 792-794: the placeholder's first text
LoadingText(isProjectPlanning, initialMessageOverride) ==
    IF isProjectPlanning
    THEN IF initialMessageOverride # NoOverride THEN initialMessageOverride
         ELSE projectPlanningMessages[1]
    ELSE "Thinking..."

\* Lines 815-822: the (0-based) index the first tick shows
StartIndex(initialMessageOverride) ==
    IF initialMessageOverride # NoOverride
    THEN LET hits == { i \in 1..Len(projectPlanningMessages) :
                          projectPlanningMessages[i] = initialMessageOverride }
         IN  IF hits = {} THEN 0 ELSE Min(hits) % Len(projectPlanningMessages)
    ELSE 1

\* A live setInterval timer: the placeholder it rewrites and its closure's index.
\* initial and ticks are history: the override the indicator was started with, and
\* the number of ticks so far, counted modulo the length of the list once positive.
Interval(timer, target, index, initial) ==
    [ timer |-> timer, target |-> target, index |-> index, initial |-> initial, ticks |-> 0 ]

Ticked(t) ==
    [ t EXCEPT !.index = (t.index + 1) % Len(projectPlanningMessages),
               !.ticks = IF t.ticks = Len(projectPlanningMessages) THEN 1 ELSE t.ticks + 1 ]

\* clearInterval(loadingMessageIntervalRef.current)
ClearInterval(ivs, ref) == { t \in ivs : t.timer # ref }

\* displayLoadingIndicator: the placeholder gets id newLoadingId; a timer that is
\* armed gets the same number as its handle.
DisplayMessages(msgs, newLoadingId, isProjectPlanning, initialMessageOverride) ==
    Append(msgs,
           [ ChatMessage(newLoadingId, "agent",
                         << LoadingText(isProjectPlanning, initialMessageOverride) >>)
               EXCEPT !.isLoadingPlaceholder = TRUE ])

DisplayIntervalsKeep(ivs, ref, newLoadingId, isProjectPlanning, initialMessageOverride) ==
    IF isProjectPlanning
    THEN ivs \cup { Interval(newLoadingId, newLoadingId, StartIndex(initialMessageOverride),
                             initialMessageOverride) }
    ELSE ivs

\* Lines 808-834: the timers after displayLoadingIndicator
DisplayIntervals(ivs, ref, newLoadingId, isProjectPlanning, initialMessageOverride) ==
    IF isProjectPlanning
    THEN (IF ref # 0 THEN ClearInterval(ivs, ref) ELSE ivs)
            \cup { Interval(newLoadingId, newLoadingId, StartIndex(initialMessageOverride),
                             initialMessageOverride) }
    ELSE ivs

DisplayRef(ref, newLoadingId, isProjectPlanning) ==
    IF isProjectPlanning THEN newLoadingId ELSE ref

RemoveLoadingMessagesKeep(msgs, idToRemove) == msgs

RemoveLoadingMessagesAll(msgs, idToRemove) ==
    IF idToRemove # 0 THEN SelectSeq(msgs, LAMBDA m : ~m.isLoadingPlaceholder) ELSE msgs

\* removeLoadingIndicator(idToRemove): the message list it leaves (0 stands for null)
RemoveLoadingMessages(msgs, idToRemove) ==
    IF idToRemove # 0 THEN RemoveById(msgs, idToRemove) ELSE msgs

RemoveLoadingIntervalsKeep(ivs, ref) == ivs

\* removeLoadingIndicator: clears whatever interval the ref holds
RemoveLoadingIntervals(ivs, ref) == IF ref # 0 THEN ClearInterval(ivs, ref) ELSE ivs

-----------------------------------------------------------------------------
(* History variables *)

None == << >>

\* An operation in flight: kind is "send", "accept" or "reject".  agent and recent
\* are the values of selectedAgent and recentlyPromptedProjectIds in the closure
\* of the handler, i.e. in the render the handler was created in.
Op(kind, uid, agent, recent, text, candidateName, projectId, messageId, loadingId) ==
    [ kind |-> kind, uid |-> uid, agent |-> agent, recent |-> recent, text |-> text,
      candidateName |-> candidateName, projectId |-> projectId, messageId |-> messageId,
      loadingId |-> loadingId ]

\* A command the operator attempts: the handler called, and the agent, the chat
\* and the requests in flight when it is called
Attempt(kind, text) ==
    [ kind |-> kind, text |-> text, agent |-> selectedAgent, messages |-> messages,
      ops |-> ops, intervals |-> intervals ]

\* The session state a request finds when it completes
Before ==
    [ messages |-> messages, selectedAgent |-> selectedAgent,
      currentAgentRoom |-> currentAgentRoom,
      promptedCandidateMessageIds |-> promptedCandidateMessageIdsRef,
      recentlyPromptedProjectIds |-> recentlyPromptedProjectIds ]

-----------------------------------------------------------------------------
(* Session Orchestrator: handleSendMessage *)

\* Line 949 (texts are kept in lower case)
IsFinalizingProject(text) == StartsWith(text, << "finalize project " >>)

\* Lines 937-953: up to the await.  The operator types `text` and presses Send.
HandleSendMessage(text) ==
    /\ selectedAgent # NoAgent
    /\ Trim(text) # << >>
    /\ LET currentMessageText == Trim(text)
           isFinalizingProject == IsFinalizingProject(currentMessageText)
           override == IF isFinalizingProject THEN projectPlanningMessages[1] ELSE NoOverride
           tempLoadingId == nextId + 1
       IN  /\ messages' = DisplayMessages(
                              Append(messages, ChatMessage(nextId, "user", currentMessageText)),
                              tempLoadingId, isFinalizingProject, override)
           /\ intervals' = DisplayIntervals(intervals, loadingMessageIntervalRef,
                                            tempLoadingId, isFinalizingProject, override)
           /\ loadingMessageIntervalRef' =
                  DisplayRef(loadingMessageIntervalRef, tempLoadingId, isFinalizingProject)
           /\ ops' = ops \cup { Op("send", nextId, selectedAgent, recentlyPromptedProjectIds,
                                   currentMessageText, "", Undefined, 0, tempLoadingId) }
    /\ nextId' = nextId + 2
    /\ issued' = issued + 1
    /\ lastAttempt' = << Attempt("send", text) >>
    /\ lastProjects' = None
    /\ lastSelect' = None /\ lastHide' = None /\ lastReply' = None /\ lastNotify' = None
    /\ UNCHANGED dataVars
    /\ UNCHANGED << session, socket, liveSocket, joined, agents, selectedAgent,
                    currentAgentRoom, recentlyPromptedProjectIds,
                    promptedCandidateMessageIdsRef, cooldownTimers, boots, created,
                    settled, exhaustions >>

\* Line 938: handleSendMessage returns at once when no agent is active or the input
\* is blank
SendIgnored(text) ==
    /\ selectedAgent = NoAgent \/ Trim(text) = << >>
    /\ lastAttempt' = << Attempt("send", text) >>
    /\ lastProjects' = None
    /\ issued' = issued + 1
    /\ lastSelect' = None /\ lastHide' = None /\ lastReply' = None /\ lastNotify' = None
    /\ UNCHANGED dataVars
    /\ UNCHANGED << session, socket, liveSocket, joined, agents, selectedAgent,
                    currentAgentRoom, messages, recentlyPromptedProjectIds,
                    promptedCandidateMessageIdsRef, loadingMessageIntervalRef, intervals,
                    cooldownTimers, ops, boots, nextId, created, settled, exhaustions >>

\* The candidate-selection messages this reply adds to the history
Created(reply) ==
    IF reply.messageSubType = "candidate_selection"
    THEN { [ id |-> reply.id, projectId |-> reply.projectId, candidates |-> reply.candidates ] }
    ELSE { }

\* Lines 953-962: the request of handleSendMessage comes back with `net`; the reply
\* is appended and the finally block removes the placeholder.
SendMessageSettles(op, net) ==
    /\ op \in ops
    /\ op.kind = "send"
    /\ LET reply == PostMessageReply(nextId, net)
           before == WithReply(messages, reply)
           after == RemoveLoadingMessages(before, op.loadingId)
       IN  /\ messages' = after
           /\ lastReply' = << [ net |-> net, reply |-> reply, op |-> op, before |-> Before ] >>
           /\ lastHide' = << [ id |-> op.loadingId, origin |-> before, before |-> before,
                               after |-> after, again |-> FALSE ] >>
           /\ created' = created \cup Created(reply)
    /\ intervals' = RemoveLoadingIntervals(intervals, loadingMessageIntervalRef)
    /\ loadingMessageIntervalRef' = 0
    /\ ops' = ops \ { op }
    /\ nextId' = nextId + 1
    /\ lastSelect' = None /\ lastNotify' = None /\ lastAttempt' = None /\ lastProjects' = None
    /\ UNCHANGED dataVars
    /\ UNCHANGED << session, socket, liveSocket, joined, agents, selectedAgent,
                    currentAgentRoom, recentlyPromptedProjectIds,
                    promptedCandidateMessageIdsRef, cooldownTimers, boots, issued,
                    settled, exhaustions >>

\* Lines 825-834: the interval callback of a live timer
IntervalTick(t) ==
    /\ t \in intervals
    /\ messages' = SetText(messages, t.target, << projectPlanningMessages[t.index + 1] >>)
    /\ intervals' = (intervals \ { t }) \cup { Ticked(t) }
    /\ lastSelect' = None /\ lastHide' = None /\ lastReply' = None /\ lastNotify' = None
    /\ lastAttempt' = None /\ lastProjects' = None
    /\ UNCHANGED dataVars
    /\ UNCHANGED << session, socket, liveSocket, joined, agents, selectedAgent,
                    currentAgentRoom, recentlyPromptedProjectIds,
                    promptedCandidateMessageIdsRef, loadingMessageIntervalRef,
                    cooldownTimers, ops, boots, nextId, issued, created,
                    settled, exhaustions >>

-----------------------------------------------------------------------------
(* Candidate Negotiation Engine: handleCandidateAccept / handleCandidateReject *)

FalsyNever(projectId) == FALSE

\* !projectId
Falsy(projectId) == projectId = Undefined \/ projectId = << >>

\* promptForNextStep: the text names the project and lists the two follow-up commands
NextStepText(projectId) ==
    << "All initial candidates for project '" >> \o projectId
       \o << "' have been processed. What would you like to do next? add [Participant Name] to project " >>
       \o projectId \o << "finalize project " >> \o projectId

NextStepMessage(id, projectId) == ChatMessage(id, "agent", NextStepText(projectId))

InCooldownAlways(op) == op.projectId \in op.recent \cup { op.projectId }

\* Lines 1011 / 1062: the cooldown test reads the set captured by the handler's closure
InCooldown(op) == op.projectId \in op.recent

UpdatedCandidatesStale(candidates, candidateName) ==
    SelectSeq(<< "a", "b" >>, LAMBDA c : c # candidateName)

UpdatedCandidatesKeepName(candidates, candidateName) ==
    Append(SelectSeq(candidates, LAMBDA c : c # candidateName), candidateName)

\* Lines 1006 / 1057: msg.candidates.filter(c => c.name !== candidateName)
UpdatedCandidates(candidates, candidateName) ==
    SelectSeq(candidates, LAMBDA c : c # candidateName)

AlreadyHandledReset(msg) == [ msg EXCEPT !.candidates = << >>, !.promptIssued = FALSE ]

\* Lines 1024-1027 / 1075-1078: { ...msg, candidates: [] }
AlreadyHandled(msg) == [ msg EXCEPT !.candidates = << >> ]

\* Lines 1005-1030 for one message of the list: acc.msgs is the mapped list so far,
\* acc.ref the processed set, acc.prompts the calls of promptForNextStep so far.
\* (A candidates field that holds a non-array never belongs to a message the
\* operator can act on: the selector is rendered for non-empty arrays only.)
MapMessageBlind(acc, msg, op) ==
    [ acc EXCEPT !.msgs = Append(acc.msgs, msg), !.ref = acc.ref \cup { op.messageId } ]

\* Lines 1004-1031 / 1055-1082: the callback of prevMessages.map for one message
MapMessage(acc, msg, op) ==
    IF msg.id = op.messageId /\ msg.messageSubType = "candidate_selection"
          /\ msg.candidatesKind = "list"
    THEN LET updatedCandidates == UpdatedCandidates(msg.candidates, op.candidateName)
         IN  IF Len(updatedCandidates) = 0
             THEN IF op.messageId \notin acc.ref
                  THEN [ msgs |-> Append(acc.msgs, [ msg EXCEPT !.candidates = << >>,
                                                               !.promptIssued = TRUE ]),
                         ref |-> acc.ref \cup { op.messageId },
                         first |-> acc.first + 1,
                         prompts |-> acc.prompts
                                       + (IF ~Falsy(op.projectId) /\ ~InCooldown(op) THEN 1 ELSE 0) ]
                  ELSE [ acc EXCEPT !.msgs = Append(acc.msgs, AlreadyHandled(msg)) ]
             ELSE [ acc EXCEPT !.msgs =
                        Append(acc.msgs, [ msg EXCEPT !.candidates = updatedCandidates ]) ]
    ELSE [ acc EXCEPT !.msgs = Append(acc.msgs, msg) ]

\* prevMessages.map(...) of lines 1003-1033 / 1054-1084, left to right
RECURSIVE MapMessages(_, _, _)
MapMessages(acc, rest, op) ==
    IF rest = << >> THEN acc
    ELSE MapMessages(MapMessage(acc, Head(rest), op), Tail(rest), op)

\* The `n` next-step messages queued by the updater, with ids from `id` on
RECURSIVE AppendPrompts(_, _, _, _)
AppendPrompts(msgs, n, id, projectId) ==
    IF n = 0 THEN msgs
    ELSE AppendPrompts(Append(msgs, NextStepMessage(id, projectId)), n - 1, id + 1, projectId)

\* Lines 994 / 1045: the user-visible log entry
ActionText(kind, candidateName, projectId) ==
    IF kind = "accept"
    THEN << "Action: Adding ", candidateName, " to project " >> \o projectId \o << "." >>
    ELSE << "Action: Rejecting ", candidateName, " for project " >> \o projectId \o << "." >>

CommandTextAdd(kind, candidateName, projectId) ==
    << "add ", candidateName, " to project " >> \o projectId

\* Lines 1000 / 1051: the command sent to the agent service
CommandText(kind, candidateName, projectId) ==
    IF kind = "accept"
    THEN << "add ", candidateName, " to project " >> \o projectId
    ELSE << "User action: Rejected candidate ", candidateName, " for project '" >>
            \o projectId \o << "'" >>

MissingText == << "Error: Agent or Project ID missing for this action." >>

\* Lines 984-1000 / 1036-1051: the operator presses Accept or Reject on the card of
\* candidate number j of message number i (AgentCandidateSelector is rendered for
\* candidate-selection messages with a non-empty array).
HandleCandidateAction(kind, i, j) ==
    /\ i \in 1..Len(messages)
    /\ messages[i].type # "system"
    /\ messages[i].messageSubType = "candidate_selection"
    /\ messages[i].candidatesKind = "list"
    /\ j \in 1..Len(messages[i].candidates)
    /\ LET candidateName == messages[i].candidates[j]
           projectId == messages[i].projectId
           messageId == messages[i].id
       IN  IF selectedAgent = NoAgent \/ Falsy(projectId)
           THEN /\ messages' = Append(messages, ChatMessage(nextId, "system", MissingText))
                /\ ops' = ops
           ELSE /\ messages' = Append(messages,
                       ChatMessage(nextId, "user", ActionText(kind, candidateName, projectId)))
                /\ ops' = ops \cup { Op(kind, nextId, selectedAgent, recentlyPromptedProjectIds,
                                        CommandText(kind, candidateName, projectId),
                                        candidateName, projectId, messageId, 0) }
    /\ nextId' = nextId + 1
    /\ issued' = issued + 1
    /\ lastAttempt' = << Attempt(kind, << messages[i].candidates[j] >>) >>
    /\ lastProjects' = None
    /\ lastSelect' = None /\ lastHide' = None /\ lastReply' = None /\ lastNotify' = None
    /\ UNCHANGED dataVars
    /\ UNCHANGED << session, socket, liveSocket, joined, agents, selectedAgent,
                    currentAgentRoom, recentlyPromptedProjectIds,
                    promptedCandidateMessageIdsRef, loadingMessageIntervalRef, intervals,
                    cooldownTimers, boots, created, settled, exhaustions >>

\* A pending eviction: setTimeout(..., 2000) of lines 1014-1020
Eviction(id, projectId) == [ id |-> id, projectId |-> projectId ]

PendingFor(projectId) == \E t \in cooldownTimers : t.projectId = projectId

\* Lines 1000-1033 / 1051-1084: the request of an accept or reject comes back with
\* `net`; the reply is appended, then the updater removes the candidate.
CandidateActionSettles(op, net) ==
    /\ op \in ops
    /\ op.kind \in { "accept", "reject" }
    /\ LET reply == PostMessageReply(nextId, net)
           r == MapMessages([ msgs |-> << >>, ref |-> promptedCandidateMessageIdsRef,
                              first |-> 0, prompts |-> 0 ],
                            WithReply(messages, reply), op)
       IN  /\ messages' = AppendPrompts(r.msgs, r.prompts, nextId + 1, op.projectId)
           /\ promptedCandidateMessageIdsRef' = r.ref
           /\ recentlyPromptedProjectIds' =
                  IF r.prompts > 0 THEN recentlyPromptedProjectIds \cup { op.projectId }
                  ELSE recentlyPromptedProjectIds
           /\ cooldownTimers' = cooldownTimers
                  \cup { Eviction(nextId + k, op.projectId) : k \in 1..r.prompts }
           /\ nextId' = nextId + 1 + r.prompts
           /\ lastReply' = << [ net |-> net, reply |-> reply, op |-> op, before |-> Before ] >>
           /\ created' = created \cup Created(reply)
           /\ exhaustions' = IF r.first > 0
                             THEN exhaustions \cup
                                    { [ messageId |-> op.messageId, projectId |-> op.projectId,
                                        inWindow |-> PendingFor(op.projectId),
                                        inCooldown |->
                                            op.projectId \in recentlyPromptedProjectIds,
                                        prompted |-> r.prompts > 0 ] }
                             ELSE exhaustions
    /\ settled' = settled \cup { [ messageId |-> op.messageId,
                                   candidateName |-> op.candidateName, kind |-> op.kind ] }
    /\ ops' = ops \ { op }
    /\ lastSelect' = None /\ lastHide' = None /\ lastNotify' = None
    /\ lastAttempt' = None /\ lastProjects' = None
    /\ UNCHANGED dataVars
    /\ UNCHANGED << session, socket, liveSocket, joined, agents, selectedAgent,
                    currentAgentRoom, loadingMessageIntervalRef, intervals, boots, issued >>

\* Lines 1014-1020: the timeout fires and evicts the project from the cooldown set
CooldownExpires(t) ==
    /\ t \in cooldownTimers
    /\ recentlyPromptedProjectIds' = recentlyPromptedProjectIds \ { t.projectId }
    /\ cooldownTimers' = cooldownTimers \ { t }
    /\ lastSelect' = None /\ lastHide' = None /\ lastReply' = None /\ lastNotify' = None
    /\ lastAttempt' = None /\ lastProjects' = None
    /\ UNCHANGED dataVars
    /\ UNCHANGED << session, socket, liveSocket, joined, agents, selectedAgent,
                    currentAgentRoom, messages, promptedCandidateMessageIdsRef,
                    loadingMessageIntervalRef, intervals, ops, boots, nextId, issued,
                    created, settled, exhaustions >>

-----------------------------------------------------------------------------
(* Session Orchestrator / Channel Membership Manager: handleAgentSelect *)

NoRoom == "none"

\* The state values a handler's closure holds: those of the render it was created in
Closure(agent, msgs, sock, room) ==
    [ selectedAgent |-> agent, messages |-> msgs, socket |-> sock, currentAgentRoom |-> room ]

Fresh == Closure(selectedAgent, messages, socket, currentAgentRoom)

\* The data caches: for each kind, the agent whose data the cache holds; NoAgent
\* stands for the empty list
CacheKinds == { "meetings", "projects", "tasks" }
EmptyCaches == [ k \in CacheKinds |-> NoAgent ]

\* A request of fetchMeetings / fetchProjects / fetchTasks for agentId.  The
\* requests in flight are counted per kind and agent: two requests of the same kind
\* for the same agent do the same on completion.
Fetch(kind, agentId) == << kind, agentId >>
NoFetches == [ f \in CacheKinds \X { "A", "B" } |-> 0 ]
StartFetches(fs, started) ==
    [ f \in DOMAIN fs |-> fs[f] + (IF f \in started THEN 1 ELSE 0) ]
InFlight(fs) == { f \in DOMAIN fs : fs[f] > 0 }

\* Lines 746-749: fetchMeetings(agent.id); fetchProjects(agent.id); fetchTasks(agent.id)
FetchAll(agentId) == { Fetch(k, agentId) : k \in CacheKinds }

\* The part of the state handleAgentSelect writes
SelectState(agent, msgs, room, rooms, id) ==
    [ selectedAgent |-> agent, messages |-> msgs, currentAgentRoom |-> room,
      joined |-> rooms, nextId |-> id, emits |-> << >>, acted |-> FALSE,
      caches |-> caches, fetches |-> fetches, fetched |-> { } ]

Current == SelectState(selectedAgent, messages, currentAgentRoom, joined, nextId)

Emit(ev, room) == [ ev |-> ev, room |-> room ]

\* The texts of this program that contain the word "Error"
ErrorTexts ==
    { << "Error fetching agent list." >>,
      << "Error initializing your agents. Please refresh the page." >>,
      << "Error: No agent selected to send the command." >>,
      << "Error: Agent or Project ID missing for this action." >> }

\* messages.some(m => m.type === 'system' && m.text.includes('Error'))
SomeError(msgs) ==
    \E i \in 1..Len(msgs) : msgs[i].type = "system" /\ msgs[i].text \in ErrorTexts

\* What the server makes of socket.emit on connection `sock`: a connection that was
\* disconnected delivers nothing.
Membership(rooms, sock, emits) ==
    IF sock # liveSocket THEN rooms
    ELSE LET RECURSIVE Apply(_, _)
             Apply(rs, es) ==
                 IF es = << >> THEN rs
                 ELSE Apply(IF Head(es).ev = "join_room" THEN rs \cup { Head(es).room }
                            ELSE rs \ { Head(es).room },
                            Tail(es))
         IN  Apply(rooms, emits)

RoomEmitsJoinFirst(cl, agent) ==
    IF cl.socket = 0 THEN << >>
    ELSE (IF cl.currentAgentRoom # agent THEN << Emit("join_room", agent) >> ELSE << >>)
         \o (IF cl.currentAgentRoom # NoRoom /\ cl.currentAgentRoom # agent
             THEN << Emit("leave_room", cl.currentAgentRoom) >> ELSE << >>)

\* Lines 752-764: the emissions of a selection
RoomEmits(cl, agent) ==
    IF cl.socket = 0 THEN << >>
    ELSE (IF cl.currentAgentRoom # NoRoom /\ cl.currentAgentRoom # agent
          THEN << Emit("leave_room", cl.currentAgentRoom) >> ELSE << >>)
         \o (IF cl.currentAgentRoom # agent THEN << Emit("join_room", agent) >> ELSE << >>)

\* Lines 737-744: the chat after a selection
ContextMessages(st, cl, agent, isInitialSelect) ==
    IF ~isInitialSelect
    THEN << ChatMessage(st.nextId, "system", << "Switched context to ", agent >>) >>
    ELSE IF Len(cl.messages) = 0
         THEN << ChatMessage(st.nextId, "system", << "Context set to ", agent >>) >>
         ELSE st.messages

SameAgentNever(cl, agent, isInitialSelect) == FALSE

\* Line 732: selectedAgent?.id === agent.id && !isInitialSelect
SameAgent(cl, agent, isInitialSelect) == cl.selectedAgent = agent /\ ~isInitialSelect

\* Lines 710-770.  `st` is the state the call writes to, `cl` the closure it reads:
\* the two agree for a handler of the latest render and differ for a call made
\* from an older closure.  A value written overwrites the state.
HandleAgentSelect(st, cl, agent, isInitialSelect) ==
    IF agent = NoAgent
    THEN LET leave == cl.socket # 0 /\ cl.currentAgentRoom # NoRoom
             emits == IF leave THEN << Emit("leave_room", cl.currentAgentRoom) >> ELSE << >>
         IN  [ st EXCEPT
                 !.selectedAgent = NoAgent,
                 !.messages = IF ~isInitialSelect
                                  \/ (Len(cl.messages) > 0 /\ ~SomeError(cl.messages))
                              THEN << >> ELSE st.messages,
                 !.caches = EmptyCaches,
                 !.currentAgentRoom = IF leave THEN NoRoom ELSE st.currentAgentRoom,
                 !.joined = Membership(st.joined, cl.socket, emits),
                 !.emits = emits,
                 !.acted = TRUE ]
    ELSE IF SameAgent(cl, agent, isInitialSelect)
    THEN st
    ELSE LET emits == RoomEmits(cl, agent)
         IN  [ st EXCEPT
                 !.selectedAgent = agent,
                 !.messages = ContextMessages(st, cl, agent, isInitialSelect),
                 !.currentAgentRoom = IF cl.socket # 0 /\ cl.currentAgentRoom # agent
                                      THEN agent ELSE st.currentAgentRoom,
                 !.fetches = StartFetches(st.fetches, FetchAll(agent)),
                 !.fetched = FetchAll(agent),
                 !.joined = Membership(st.joined, cl.socket, emits),
                 !.nextId = st.nextId + 1,
                 !.emits = emits,
                 !.acted = TRUE ]

\* Lines 412-417: the effect on [agents], run with the closure of the render that
\* follows the state `st`
AutoSelect(st, list) ==
    IF Len(list) > 0 /\ st.selectedAgent = NoAgent
    THEN HandleAgentSelect(st, Closure(st.selectedAgent, st.messages, socket, st.currentAgentRoom),
                           list[1], TRUE)
    ELSE st

\* What a call of handleAgentSelect did, kept for the state right after it
Selection(agent, isInitialSelect, before, after) ==
    [ agent |-> agent, isInitialSelect |-> isInitialSelect,
      prevAgent |-> before.selectedAgent, prevRoom |-> before.currentAgentRoom,
      prevJoined |-> before.joined, prevMessages |-> before.messages,
      prevCaches |-> before.caches, emits |-> after.emits, fetched |-> after.fetched,
      acted |-> after.acted ]

\* The writes of a selection
Selected(after) ==
    /\ selectedAgent' = after.selectedAgent
    /\ messages' = after.messages
    /\ currentAgentRoom' = after.currentAgentRoom
    /\ joined' = after.joined
    /\ nextId' = after.nextId
    /\ caches' = after.caches
    /\ fetches' = after.fetches
    /\ selectedAgentRef' = after.selectedAgent
    /\ lastNotify' = None /\ lastAttempt' = None /\ lastProjects' = None

\* Lines 1220-1224: the operator picks `agent` from the list: onChange calls
\* handleAgentSelect(agent, false) with the closure of the latest render
UserSelects(agent) ==
    /\ \E i \in 1..Len(agents) : agents[i] = agent
    /\ LET after == HandleAgentSelect(Current, Fresh, agent, FALSE)
       IN  /\ Selected(after)
           /\ lastSelect' = << Selection(agent, FALSE, Current, after) >>
    /\ issued' = issued + 1
    /\ lastHide' = None /\ lastReply' = None
    /\ UNCHANGED << session, socket, liveSocket, agents, recentlyPromptedProjectIds,
                    promptedCandidateMessageIdsRef, loadingMessageIntervalRef, intervals,
                    cooldownTimers, ops, boots, created, settled, exhaustions >>

\* Lines 712-729, 1223: handleAgentSelect(null, isInitialSelect), the deselection
\* the handler provides for the placeholder entry of the list
Deselects(isInitialSelect) ==
    /\ session # 0
    /\ LET after == HandleAgentSelect(Current, Fresh, NoAgent, isInitialSelect)
       IN  /\ Selected(after)
           /\ lastSelect' = << Selection(NoAgent, isInitialSelect, Current, after) >>
    /\ issued' = issued + 1
    /\ lastHide' = None /\ lastReply' = None
    /\ UNCHANGED << session, socket, liveSocket, agents, recentlyPromptedProjectIds,
                    promptedCandidateMessageIdsRef, loadingMessageIntervalRef, intervals,
                    cooldownTimers, ops, boots, created, settled, exhaustions >>

-----------------------------------------------------------------------------
(* Live Data Mirror: push notifications and the requests that fill the caches *)

NotifiedAgentFirst == "A"

\* Lines 312, 331, 350: selectedAgentRef.current?.id, read when the notification is
\* handled.  The effect of lines 245-247 has copied selectedAgent into the reference
\* in the render that followed the selection.
NotifiedAgent == selectedAgentRef

\* Lines 305-364: update_meetings / update_projects / update_tasks arrives on the
\* live connection; the handler refetches if the stored connection is active and
\* the reference holds an agent.
Notify(kind) ==
    /\ liveSocket # 0
    /\ LET started == IF socket # 0 /\ socket = liveSocket /\ NotifiedAgent # NoAgent
                      THEN { Fetch(kind, NotifiedAgent) } ELSE { }
       IN  /\ fetches' = StartFetches(fetches, started)
           /\ lastNotify' = << [ kind |-> kind, agent |-> selectedAgent,
                                 fetched |-> started ] >>
    /\ issued' = issued + 1
    /\ lastSelect' = None /\ lastHide' = None /\ lastReply' = None
    /\ lastAttempt' = None /\ lastProjects' = None
    /\ UNCHANGED << session, socket, liveSocket, joined, agents, selectedAgent,
                    currentAgentRoom, messages, recentlyPromptedProjectIds,
                    promptedCandidateMessageIdsRef, loadingMessageIntervalRef, intervals,
                    cooldownTimers, ops, boots, nextId, created, settled, exhaustions,
                    caches, selectedAgentRef >>

\* Lines 554-695: a request of fetchMeetings / fetchProjects / fetchTasks completes:
\* setX(data of the agent it was made for) on success, setX([]) on failure
FetchSettles(f, ok) ==
    /\ fetches[f] > 0
    /\ fetches' = [ fetches EXCEPT ![f] = @ - 1 ]
    /\ caches' = [ caches EXCEPT ![f[1]] = IF ok THEN f[2] ELSE NoAgent ]
    /\ lastSelect' = None /\ lastHide' = None /\ lastReply' = None /\ lastNotify' = None
    /\ lastAttempt' = None /\ lastProjects' = None
    /\ UNCHANGED << session, socket, liveSocket, joined, agents, selectedAgent,
                    currentAgentRoom, messages, recentlyPromptedProjectIds,
                    promptedCandidateMessageIdsRef, loadingMessageIntervalRef, intervals,
                    cooldownTimers, ops, boots, nextId, issued, created, settled,
                    exhaustions, selectedAgentRef >>

-----------------------------------------------------------------------------
(* Live Data Mirror: fetchProjects *)

\* a || b, for texts and lists (a field the response does not carry is Undefined)
Or(a, b) == IF Falsy(a) THEN b ELSE a

\* A project of the response, by the fields the normalisation defaults
ApiProject(id, name, participants, plan_steps) ==
    [ id |-> id, name |-> name, participants |-> participants, plan_steps |-> plan_steps ]

\* Lines 622-632: the list shape
NormalizeList(items) ==
    [ i \in 1..Len(items) |->
        ApiProject(Or(items[i].id, items[i].name),
                   items[i].name,
                   Or(items[i].participants, << >>),
                   Or(items[i].plan_steps, << >>)) ]

\* Lines 636-649: the map shape; items are the entries in the order of Object.keys,
\* each with its key in the field id
NormalizeMap(items) ==
    [ i \in 1..Len(items) |->
        ApiProject(items[i].id,
                   Or(items[i].name, items[i].id),
                   Or(items[i].participants, << >>),
                   Or(items[i].plan_steps, << >>)) ]

\* Lines 618-650: the project list made of a response body
NormalizeProjects(data) ==
    CASE data.shape = "list" -> NormalizeList(data.items)
      [] data.shape = "map" -> NormalizeMap(data.items)
      [] OTHER -> << >>

\* Lines 610-658: a request of fetchProjects completes with the body `data`
FetchProjectsSettles(f, data) ==
    /\ fetches[f] > 0
    /\ f[1] = "projects"
    /\ fetches' = [ fetches EXCEPT ![f] = @ - 1 ]
    /\ caches' = [ caches EXCEPT !["projects"] = f[2] ]
    /\ lastProjects' = << [ data |-> data, projects |-> NormalizeProjects(data) ] >>
    /\ lastSelect' = None /\ lastHide' = None /\ lastReply' = None /\ lastNotify' = None
    /\ lastAttempt' = None
    /\ UNCHANGED << session, socket, liveSocket, joined, agents, selectedAgent,
                    currentAgentRoom, messages, recentlyPromptedProjectIds,
                    promptedCandidateMessageIdsRef, loadingMessageIntervalRef, intervals,
                    cooldownTimers, ops, boots, nextId, issued, created, settled,
                    exhaustions, selectedAgentRef >>

-----------------------------------------------------------------------------
(* Session Orchestrator: handleSubmitNewProject *)

WordChars == { "a", "b", "_" }

\* title.replace(/\s+/g, '_')
RECURSIVE SpacesToUnderscore(_)
SpacesToUnderscore(s) ==
    IF s = << >> THEN << >>
    ELSE IF Head(s) = " " THEN << "_" >> \o SpacesToUnderscore(TrimLeft(s))
    ELSE << Head(s) >> \o SpacesToUnderscore(Tail(s))

\* Line 1105: the project id made of a title (a sequence of characters)
Sanitize(title) == SelectSeq(SpacesToUnderscore(title), LAMBDA c : c \in WordChars)

ParticipantsText == "Looking for possible participants..."

NoAgentForProjectText == << "Error: No agent selected to create a project." >>

InvalidTitleText ==
    << "Project title is invalid after sanitization. Please use alphanumeric characters and spaces." >>

\* Lines 1099-1129: up to the await.  The operator submits the new-project form.
HandleSubmitNewProject(title, description) ==
    /\ LET sanitizedProjectId == Sanitize(title)
           tempLoadingId == nextId + 1
       IN  IF selectedAgent = NoAgent
           THEN /\ messages' = Append(messages,
                                      ChatMessage(nextId, "system", NoAgentForProjectText))
                /\ nextId' = nextId + 1
                /\ UNCHANGED << intervals, loadingMessageIntervalRef, ops >>
           ELSE IF sanitizedProjectId = << >>
           THEN /\ messages' = Append(messages, ChatMessage(nextId, "system", InvalidTitleText))
                /\ nextId' = nextId + 1
                /\ UNCHANGED << intervals, loadingMessageIntervalRef, ops >>
           ELSE /\ messages' = DisplayMessages(
                       Append(messages,
                              ChatMessage(nextId, "user",
                                          << "Creating project: " >> \o title \o << "..." >>)),
                       tempLoadingId, TRUE, ParticipantsText)
                /\ intervals' = DisplayIntervals(intervals, loadingMessageIntervalRef,
                                                 tempLoadingId, TRUE, ParticipantsText)
                /\ loadingMessageIntervalRef' =
                       DisplayRef(loadingMessageIntervalRef, tempLoadingId, TRUE)
                /\ ops' = ops \cup
                       { Op("create", nextId, selectedAgent, recentlyPromptedProjectIds,
                            << "project " >> \o sanitizedProjectId \o << " = ", description >>,
                            "", Undefined, 0, tempLoadingId) }
                /\ nextId' = nextId + 2
    /\ issued' = issued + 1
    /\ lastAttempt' = << Attempt("create", title) >>
    /\ lastProjects' = None
    /\ lastSelect' = None /\ lastHide' = None /\ lastReply' = None /\ lastNotify' = None
    /\ UNCHANGED dataVars
    /\ UNCHANGED << session, socket, liveSocket, joined, agents, selectedAgent,
                    currentAgentRoom, recentlyPromptedProjectIds,
                    promptedCandidateMessageIdsRef, cooldownTimers, boots, created,
                    settled, exhaustions >>

\* Lines 1129-1147: the request of handleSubmitNewProject comes back with `net`;
\* the reply is appended, the finally block removes the placeholder, and the
\* projects of the agent of the handler's closure are fetched.
SubmitNewProjectSettles(op, net) ==
    /\ op \in ops
    /\ op.kind = "create"
    /\ LET reply == PostMessageReply(nextId, net)
           before == WithReply(messages, reply)
           after == RemoveLoadingMessages(before, op.loadingId)
       IN  /\ messages' = after
           /\ lastReply' = << [ net |-> net, reply |-> reply, op |-> op, before |-> Before ] >>
           /\ lastHide' = << [ id |-> op.loadingId, origin |-> before, before |-> before,
                               after |-> after, again |-> FALSE ] >>
           /\ created' = created \cup Created(reply)
    /\ intervals' = RemoveLoadingIntervals(intervals, loadingMessageIntervalRef)
    /\ loadingMessageIntervalRef' = 0
    /\ fetches' = StartFetches(fetches, { Fetch("projects", op.agent) })
    /\ ops' = ops \ { op }
    /\ nextId' = nextId + 1
    /\ lastSelect' = None /\ lastNotify' = None /\ lastAttempt' = None /\ lastProjects' = None
    /\ UNCHANGED << session, socket, liveSocket, joined, agents, selectedAgent,
                    currentAgentRoom, recentlyPromptedProjectIds,
                    promptedCandidateMessageIdsRef, cooldownTimers, boots, issued,
                    settled, exhaustions, caches, selectedAgentRef >>

-----------------------------------------------------------------------------
(* Session start: the effects on [session], fetchAgents, initializeUserAgents *)

\* A continuation waiting on the network: fetchAgents or initializeUserAgents of
\* the n-th session object, with the closure of the render whose effects started it
Boot(kind, n, cl) == [ kind |-> kind, session |-> n, cl |-> cl ]

\* Lines 253-258, 272-278, 366-368, 376-405: useSession delivers a new session
\* object.  The effects on [session] run with the closure of this render: the
\* previous connection is disconnected, a new one is opened and stored, and
\* initializeUserAgents and fetchAgents are started.
SessionChanges ==
    /\ session' = session + 1
    /\ socket' = session + 1
    /\ liveSocket' = session + 1
    /\ joined' = { }
    /\ issued' = issued + 1
    /\ boots' = boots \cup { Boot("fetchAgents", session + 1, Fresh),
                            Boot("initializeUserAgents", session + 1, Fresh) }
    /\ lastSelect' = None /\ lastHide' = None /\ lastReply' = None /\ lastNotify' = None
    /\ lastAttempt' = None /\ lastProjects' = None
    /\ UNCHANGED dataVars
    /\ UNCHANGED << agents, selectedAgent, currentAgentRoom, messages,
                    recentlyPromptedProjectIds, promptedCandidateMessageIdsRef,
                    loadingMessageIntervalRef, intervals, cooldownTimers, ops, nextId,
                    created, settled, exhaustions >>

\* Lines 290-298: connect_error of the live connection
ConnectError ==
    /\ liveSocket # 0
    /\ messages' = Append(messages, ChatMessage(nextId, "system",
           << "Failed to connect to the notification server. Real-time updates might be affected." >>))
    /\ nextId' = nextId + 1
    /\ issued' = issued + 1
    /\ lastSelect' = None /\ lastHide' = None /\ lastReply' = None /\ lastNotify' = None
    /\ lastAttempt' = None /\ lastProjects' = None
    /\ UNCHANGED dataVars
    /\ UNCHANGED << session, socket, liveSocket, joined, agents, selectedAgent,
                    currentAgentRoom, recentlyPromptedProjectIds,
                    promptedCandidateMessageIdsRef, loadingMessageIntervalRef, intervals,
                    cooldownTimers, ops, boots, created, settled, exhaustions >>

\* What GET /nodes comes back with: a list of agents, or a failure
Failure == << "failure" >>

\* Lines 384-402 and 412-417: fetchAgents completes; setAgents triggers the effect
\* on [agents], which runs with the closure of the new render.
FetchAgentsSettles(b, result) ==
    /\ b \in boots
    /\ b.kind = "fetchAgents"
    /\ IF result = Failure
       THEN /\ messages' = Append(messages,
                               ChatMessage(nextId, "system", << "Error fetching agent list." >>))
            /\ nextId' = nextId + 1
            /\ lastSelect' = None
            /\ UNCHANGED << agents, selectedAgent, currentAgentRoom, joined >>
            /\ UNCHANGED dataVars /\ lastNotify' = None
            /\ lastAttempt' = None /\ lastProjects' = None
       ELSE LET after == AutoSelect(Current, result)
            IN  /\ agents' = result
                /\ Selected(after)
                /\ lastSelect' = IF after.acted
                                 THEN << Selection(result[1], TRUE, Current, after) >>
                                 ELSE None
    /\ boots' = boots \ { b }
    /\ lastHide' = None /\ lastReply' = None
    /\ UNCHANGED << session, socket, liveSocket, recentlyPromptedProjectIds,
                    promptedCandidateMessageIdsRef, loadingMessageIntervalRef, intervals,
                    cooldownTimers, ops, issued, created, settled, exhaustions >>

\* Lines 465-502 and 412-417: initializeUserAgents completes.  Its test of
\* selectedAgent and its call of handleAgentSelect read the closure `b.cl` of the
\* render that started it; the effect on [agents] then runs with the new render.
InitializeUserAgentsSettles(b, result) ==
    /\ b \in boots
    /\ b.kind = "initializeUserAgents"
    /\ IF result = Failure
       THEN /\ messages' = Append(messages, ChatMessage(nextId, "system",
                     << "Error initializing your agents. Please refresh the page." >>))
            /\ nextId' = nextId + 1
            /\ lastSelect' = None
            /\ UNCHANGED << agents, selectedAgent, currentAgentRoom, joined >>
            /\ UNCHANGED dataVars /\ lastNotify' = None
            /\ lastAttempt' = None /\ lastProjects' = None
       ELSE LET called == Len(result) > 0 /\ b.cl.selectedAgent = NoAgent
                mid == IF called THEN HandleAgentSelect(Current, b.cl, result[1], TRUE)
                       ELSE Current
                after == IF called THEN mid ELSE AutoSelect(Current, result)
            IN  /\ agents' = result
                /\ Selected(after)
                /\ lastSelect' = IF after.acted
                                 THEN << Selection(result[1], TRUE, Current, after) >>
                                 ELSE None
    /\ boots' = boots \ { b }
    /\ lastHide' = None /\ lastReply' = None
    /\ UNCHANGED << session, socket, liveSocket, recentlyPromptedProjectIds,
                    promptedCandidateMessageIdsRef, loadingMessageIntervalRef, intervals,
                    cooldownTimers, ops, issued, created, settled, exhaustions >>

-----------------------------------------------------------------------------
(* removeLoadingIndicator as an operation of its own *)

\* Lines 849-860: removeLoadingIndicator(idToRemove)
RemoveLoadingIndicator(idToRemove) ==
    /\ LET after == RemoveLoadingMessages(messages, idToRemove)
           again == lastHide # None /\ lastHide[1].id = idToRemove
       IN  /\ messages' = after
           /\ lastHide' = << [ id |-> idToRemove,
                               origin |-> IF again THEN lastHide[1].origin ELSE messages,
                               before |-> messages, after |-> after, again |-> again ] >>
    /\ intervals' = RemoveLoadingIntervals(intervals, loadingMessageIntervalRef)
    /\ loadingMessageIntervalRef' = 0
    /\ issued' = issued + 1
    /\ lastSelect' = None /\ lastReply' = None /\ lastNotify' = None
    /\ lastAttempt' = None /\ lastProjects' = None
    /\ UNCHANGED dataVars
    /\ UNCHANGED << session, socket, liveSocket, joined, agents, selectedAgent,
                    currentAgentRoom, recentlyPromptedProjectIds,
                    promptedCandidateMessageIdsRef, cooldownTimers, ops, boots, nextId,
                    created, settled, exhaustions >>

-----------------------------------------------------------------------------
(* Bounds and inputs *)

MaxEvents == 3          \* session objects, operator selections and connection errors
MaxSessions == MaxEvents \div 2  \* session objects delivered by useSession
MaxOps == 4             \* commands and accept/reject actions of the negotiation runs
MaxMessages == MaxOps \div 2   \* candidate-selection messages of the negotiation runs
MaxInFlight == MaxOps \div 2   \* requests in flight at once in the negotiation runs
MaxCandidates == MaxOps \div 2 \* candidates of one response
MaxGateCommands == 1    \* commands of the gateway runs
MaxNameLen == 1         \* characters of a project name in a response
MaxChat == 3            \* messages of the chat removeLoadingIndicator is applied to
MaxHides == 2           \* calls of removeLoadingIndicator in a row
MaxData == 3            \* selections and push notifications of the data runs
MaxCommands == 2        \* commands and deselections of the command runs
MaxIndicators == 2      \* commands of the indicator runs
MaxSwitch == 2          \* commands and agent switches of the switch runs
MaxProjects == 2        \* projects of a /projects response
MaxRefetches == MaxProjects \div 2  \* update_projects notifications of the projects runs
MaxGuard == 3           \* commands, actions and deselections of the guard runs

AgentIds == { "A", "B" }

\* What GET /nodes can return
AgentLists == { << >>, << "A" >>, << "A", "B" >>, << "B", "A" >> }

\* All sequences over S of length at most n
RECURSIVE SeqsUpTo(_, _)
SeqsUpTo(S, n) ==
    IF n = 0 THEN { << >> }
    ELSE LET shorter == SeqsUpTo(S, n - 1)
         IN  shorter \cup { Append(q, x) : q \in shorter, x \in S }

\* The JSON text of a list of candidates
RECURSIVE JsonItems(_)
JsonItems(names) ==
    IF names = << >> THEN << >>
    ELSE << IF Head(names) = "a" THEN "{a}" ELSE "{b}" >>
            \o (IF Tail(names) = << >> THEN << >> ELSE << "," >>)
            \o JsonItems(Tail(names))

JsonList(names) == << "[" >> \o JsonItems(names) \o << "]" >>

\* "Here are the best-suited candidates for your project 'P':<JSON list>"
CandidateResponse(P, names) == candidatePrefix \o P \o << "'", ":" >> \o JsonList(names)

\* The candidate lists the service offers: the first n of a, b, b, ... (a name
\* may repeat within one list)
CandidateLists == { [ i \in 1..n |-> IF i = 1 THEN "a" ELSE "b" ] : n \in 0..MaxCandidates }

-----------------------------------------------------------------------------
(* Initial states *)

\* Before the first session object arrives
InitSignedOut ==
    /\ session = 0 /\ socket = 0 /\ liveSocket = 0 /\ joined = { }
    /\ agents = << >> /\ selectedAgent = NoAgent /\ currentAgentRoom = NoRoom
    /\ messages = << >>
    /\ recentlyPromptedProjectIds = { } /\ promptedCandidateMessageIdsRef = { }
    /\ loadingMessageIntervalRef = 0 /\ intervals = { } /\ cooldownTimers = { }
    /\ ops = { } /\ boots = { } /\ nextId = 1 /\ issued = 0
    /\ lastSelect = None /\ lastHide = None /\ lastReply = None
    /\ created = { } /\ settled = { } /\ exhaustions = { }
    /\ caches = EmptyCaches /\ fetches = NoFetches /\ selectedAgentRef = NoAgent
    /\ lastNotify = None /\ lastAttempt = None /\ lastProjects = None

\* After the first session start has completed: fetchAgents returned [A], the
\* effect selected A and joined its room, initializeUserAgents returned [A].
InitSelected ==
    /\ session = 1 /\ socket = 1 /\ liveSocket = 1 /\ joined = { "A" }
    /\ agents = << "A" >> /\ selectedAgent = "A" /\ currentAgentRoom = "A"
    /\ messages = << ChatMessage(2, "system", << "Context set to ", "A" >>) >>
    /\ recentlyPromptedProjectIds = { } /\ promptedCandidateMessageIdsRef = { }
    /\ loadingMessageIntervalRef = 0 /\ intervals = { } /\ cooldownTimers = { }
    /\ ops = { } /\ boots = { } /\ nextId = 3 /\ issued = 0
    /\ lastSelect = None /\ lastHide = None /\ lastReply = None
    /\ created = { } /\ settled = { } /\ exhaustions = { }
    /\ caches = [ k \in CacheKinds |-> "A" ] /\ fetches = NoFetches /\ selectedAgentRef = "A"
    /\ lastNotify = None /\ lastAttempt = None /\ lastProjects = None

-----------------------------------------------------------------------------
(* Specification of the session start and agent selection *)

NextSession ==
    \/ session < MaxSessions /\ issued < MaxEvents /\ SessionChanges
    \/ \E b \in boots, result \in AgentLists \cup { Failure } : FetchAgentsSettles(b, result)
    \/ \E b \in boots, result \in AgentLists \cup { Failure } :
          InitializeUserAgentsSettles(b, result)
    \/ issued < MaxEvents /\ \E agent \in AgentIds : UserSelects(agent)
    \/ issued < MaxEvents /\ \E isInitialSelect \in BOOLEAN : Deselects(isInitialSelect)
    \/ issued < MaxEvents /\ ConnectError

SpecSession == InitSignedOut /\ [][NextSession]_vars

-----------------------------------------------------------------------------
(* Specification of the candidate negotiation *)

ProjectIds == { << "p" >> }

\* The command that asks for candidates, and what the service answers it with
NegotiationCommands == { << "project p = plan" >> }

NegotiationReplies ==
    { Net("ok", CandidateResponse(P, names)) :
        P \in ProjectIds, names \in CandidateLists \ { << >> } }

\* What the service answers an accept or reject with (requests that fail are the
\* subject of the gateway specification)
ActionReplies == { Net("ok", << "Done." >>) }

NextNegotiation ==
    \/ /\ issued < MaxOps
       /\ Cardinality(created) + Cardinality(ops) < MaxMessages
       /\ \E text \in NegotiationCommands : HandleSendMessage(text)
    \/ \E op \in ops, net \in NegotiationReplies : SendMessageSettles(op, net)
    \/ /\ issued < MaxOps
       /\ Cardinality(ops) < MaxInFlight
       /\ \E i \in 1..Len(messages), j \in 1..MaxCandidates :
             HandleCandidateAction("accept", i, j)
    \/ /\ issued < MaxOps
       /\ Cardinality(ops) < MaxInFlight
       /\ \E i \in 1..Len(messages), j \in 1..MaxCandidates :
             HandleCandidateAction("reject", i, j)
    \/ \E op \in ops, net \in ActionReplies : CandidateActionSettles(op, net)
    \/ \E t \in cooldownTimers : CooldownExpires(t)

SpecNegotiation == InitSelected /\ [][NextNegotiation]_vars

-----------------------------------------------------------------------------
(* Specification of the command gateway: one command at a time, any response *)

\* Project names in a response, over a letter, the quote and the colon
NameChars == { "a", "'", ":" }
GateNames == SeqsUpTo(NameChars, MaxNameLen) \ { << >> }

\* What follows the name: the terminator "':", the quote alone, nothing
Terminator == << "'", ":" >>
GateSeparators == { Terminator, << "'" >>, << >> }

\* JSON lists of candidates, bare or between white space
ListPayloads ==
    { JsonList(names) : names \in CandidateLists }
       \cup { << " " >> \o JsonList(names) \o << " " >> : names \in CandidateLists }

\* Texts JSON.parse rejects
InvalidPayloads == { << "[", "{a}" >>, << "oops" >>, << >> }

\* JSON that is not a list: null, a number, an object
NonListPayloads == { << "null" >>, << "0" >>, << "{a}" >> }

GatePayloads == ListPayloads \cup InvalidPayloads \cup NonListPayloads

GateResponses ==
    { candidatePrefix \o P \o sep \o payload :
        P \in GateNames, sep \in GateSeparators, payload \in GatePayloads }
       \cup { << "Done." >>, << >> }

GateReplies ==
    { Net("ok", text) : text \in GateResponses }
       \cup { Net("throw", << "Failed to fetch" >>),
              Net("status", << "quota exceeded" >>),
              Net("status", << >>),
              Net("error", << "unknown command" >>) }

GateCommands == { << "find candidates" >> }

NextGateway ==
    \/ /\ issued < MaxGateCommands
       /\ ops = { }
       /\ \E text \in GateCommands : HandleSendMessage(text)
    \/ \E op \in ops, net \in GateReplies : SendMessageSettles(op, net)

SpecGateway == InitSelected /\ [][NextGateway]_vars

-----------------------------------------------------------------------------
(* Specification of removeLoadingIndicator applied to any chat *)

\* Message number k of a drawn chat: a placeholder or an agent reply, with id k
DrawnMessage(k, placeholder) ==
    [ ChatMessage(k, "agent", << IF placeholder THEN "Thinking..." ELSE "Done." >>)
        EXCEPT !.isLoadingPlaceholder = placeholder ]

DrawnChats ==
    UNION { { [ k \in 1..n |-> DrawnMessage(k, flags[k]) ] : flags \in [ 1..n -> BOOLEAN ] }
            : n \in 0..MaxChat }

\* A chat of at most MaxChat messages with distinct ids; a cycling timer may be
\* live for one of its placeholders
InitHide ==
    /\ session = 1 /\ socket = 1 /\ liveSocket = 1 /\ joined = { "A" }
    /\ agents = << "A" >> /\ selectedAgent = "A" /\ currentAgentRoom = "A"
    /\ messages \in DrawnChats
    /\ loadingMessageIntervalRef \in
          { 0 } \cup { k \in 1..Len(messages) : messages[k].isLoadingPlaceholder }
    /\ intervals = IF loadingMessageIntervalRef = 0 THEN { }
                   ELSE { Interval(loadingMessageIntervalRef, loadingMessageIntervalRef, 1,
                                     NoOverride) }
    /\ recentlyPromptedProjectIds = { } /\ promptedCandidateMessageIdsRef = { }
    /\ cooldownTimers = { }
    /\ ops = { } /\ boots = { } /\ nextId = MaxChat + 2 /\ issued = 0
    /\ lastSelect = None /\ lastHide = None /\ lastReply = None
    /\ created = { } /\ settled = { } /\ exhaustions = { }
    /\ caches = [ k \in CacheKinds |-> "A" ] /\ fetches = NoFetches /\ selectedAgentRef = "A"
    /\ lastNotify = None /\ lastAttempt = None /\ lastProjects = None

\* The ids hide is called with: null (0), the ids of the chat, an id that is absent
HideIds == 0..(MaxChat + 1)

NextHide ==
    \/ issued < MaxHides /\ \E idToRemove \in HideIds : RemoveLoadingIndicator(idToRemove)
    \/ \E t \in intervals : IntervalTick(t)

SpecHide == InitHide /\ [][NextHide]_vars

-----------------------------------------------------------------------------
(* Specification of the data mirror: selections, notifications, fetches *)

\* As InitSelected, with a second agent in the list
InitData ==
    /\ session = 1 /\ socket = 1 /\ liveSocket = 1 /\ joined = { "A" }
    /\ agents = << "A", "B" >> /\ selectedAgent = "A" /\ currentAgentRoom = "A"
    /\ messages = << ChatMessage(2, "system", << "Context set to ", "A" >>) >>
    /\ recentlyPromptedProjectIds = { } /\ promptedCandidateMessageIdsRef = { }
    /\ loadingMessageIntervalRef = 0 /\ intervals = { } /\ cooldownTimers = { }
    /\ ops = { } /\ boots = { } /\ nextId = 3 /\ issued = 0
    /\ lastSelect = None /\ lastHide = None /\ lastReply = None
    /\ created = { } /\ settled = { } /\ exhaustions = { }
    /\ caches = [ k \in CacheKinds |-> "A" ] /\ fetches = NoFetches /\ selectedAgentRef = "A"
    /\ lastNotify = None /\ lastAttempt = None /\ lastProjects = None

NextData ==
    \/ issued < MaxData /\ \E agent \in AgentIds : UserSelects(agent)
    \/ issued < MaxData /\ \E isInitialSelect \in BOOLEAN : Deselects(isInitialSelect)
    \/ issued < MaxData /\ \E kind \in CacheKinds : Notify(kind)
    \/ \E f \in InFlight(fetches), ok \in BOOLEAN : FetchSettles(f, ok)

SpecData == InitData /\ [][NextData]_vars

-----------------------------------------------------------------------------
(* Specification of the commands: typed, project creation, accept and reject *)

\* The offer of candidates a and b for project p
OfferReply == PostMessageReply(6, Net("ok", CandidateResponse(<< "p" >>, << "a", "b" >>)))

\* fetchAgents returned [A, B] and A was selected, initializeUserAgents failed, and
\* the operator's command "project p = plan" was answered with an offer.
InitOffer ==
    /\ session = 1 /\ socket = 1 /\ liveSocket = 1 /\ joined = { "A" }
    /\ agents = << "A", "B" >> /\ selectedAgent = "A" /\ currentAgentRoom = "A"
    /\ messages = << ChatMessage(2, "system", << "Context set to ", "A" >>),
                     ChatMessage(3, "system",
                         << "Error initializing your agents. Please refresh the page." >>),
                     ChatMessage(4, "user", << "project p = plan" >>),
                     OfferReply >>
    /\ recentlyPromptedProjectIds = { } /\ promptedCandidateMessageIdsRef = { }
    /\ loadingMessageIntervalRef = 0 /\ intervals = { } /\ cooldownTimers = { }
    /\ ops = { } /\ boots = { } /\ nextId = 7 /\ issued = 0
    /\ lastSelect = None /\ lastHide = None /\ lastReply = None
    /\ created = Created(OfferReply) /\ settled = { } /\ exhaustions = { }
    /\ caches = [ k \in CacheKinds |-> "A" ] /\ fetches = NoFetches /\ selectedAgentRef = "A"
    /\ lastNotify = None /\ lastAttempt = None /\ lastProjects = None

\* What the operator types: a multi-step command, white space
TypedCommands == { << "finalize project ", "p" >>, << " " >> }

\* Titles of the new-project form: one that makes an id, one that makes none
Titles == { << "a", " ", "!" >>, << "!" >> }

\* What the service answers a command with: success, transport failure, error field
CommandReplies ==
    { Net("ok", << "Done." >>),
      Net("throw", << "Failed to fetch" >>),
      Net("error", << "unknown command" >>) }

NextCommands ==
    \/ issued < MaxCommands /\ \E isInitialSelect \in BOOLEAN : Deselects(isInitialSelect)
    \/ issued < MaxCommands /\ Cardinality(ops) < MaxInFlight
          /\ \E text \in TypedCommands : HandleSendMessage(text)
    \/ issued < MaxCommands /\ \E text \in TypedCommands : SendIgnored(text)
    \/ issued < MaxCommands /\ Cardinality(ops) < MaxInFlight
          /\ \E title \in Titles : HandleSubmitNewProject(title, "plan")
    \/ /\ issued < MaxCommands
       /\ Cardinality(ops) < MaxInFlight
       /\ \E i \in 1..Len(messages), j \in 1..MaxCandidates :
             HandleCandidateAction("accept", i, j)
    \/ /\ issued < MaxCommands
       /\ Cardinality(ops) < MaxInFlight
       /\ \E i \in 1..Len(messages), j \in 1..MaxCandidates :
             HandleCandidateAction("reject", i, j)
    \/ \E op \in ops, net \in CommandReplies : SendMessageSettles(op, net)
    \/ \E op \in ops, net \in CommandReplies : SubmitNewProjectSettles(op, net)
    \/ \E op \in ops, net \in CommandReplies : CandidateActionSettles(op, net)
    \/ \E t \in cooldownTimers : CooldownExpires(t)
    \/ \E t \in intervals : IntervalTick(t)
    \/ \E f \in InFlight(fetches), ok \in BOOLEAN : FetchSettles(f, ok)

SpecCommands == InitOffer /\ [][NextCommands]_vars

-----------------------------------------------------------------------------
(* Specification of the progress indicator: commands typed and submitted *)

\* What the operator types: a finalization, a creation, another command
IndicatorCommands ==
    { << "finalize project ", "p" >>,
      << "project ", "p", " = ", "plan" >>,
      << "find candidates" >> }

NextIndicator ==
    \/ issued < MaxIndicators /\ \E text \in IndicatorCommands : HandleSendMessage(text)
    \/ issued < MaxIndicators /\ \E title \in Titles : HandleSubmitNewProject(title, "plan")
    \/ \E op \in ops : SendMessageSettles(op, Net("ok", << "Done." >>))
    \/ \E op \in ops : SubmitNewProjectSettles(op, Net("ok", << "Done." >>))
    \/ \E t \in intervals : IntervalTick(t)
    \/ \E f \in InFlight(fetches), ok \in BOOLEAN : FetchSettles(f, ok)

SpecIndicator == InitSelected /\ [][NextIndicator]_vars

-----------------------------------------------------------------------------
(* Specification of agent switches while commands are in flight *)

\* What the operator types: a multi-step command, a single-step one
SwitchCommands == { << "finalize project ", "p" >>, << "find candidates" >> }

\* What the service answers with: success, transport failure
SwitchReplies == { Net("ok", << "Done." >>), Net("throw", << "Failed to fetch" >>) }

NextSwitch ==
    \/ issued < MaxSwitch /\ \E agent \in AgentIds : UserSelects(agent)
    \/ issued < MaxSwitch /\ Cardinality(ops) < MaxInFlight
          /\ \E text \in SwitchCommands : HandleSendMessage(text)
    \/ /\ issued < MaxSwitch
       /\ Cardinality(ops) < MaxInFlight
       /\ \E i \in 1..Len(messages), j \in 1..MaxCandidates :
             HandleCandidateAction("accept", i, j)
    \/ /\ issued < MaxSwitch
       /\ Cardinality(ops) < MaxInFlight
       /\ \E i \in 1..Len(messages), j \in 1..MaxCandidates :
             HandleCandidateAction("reject", i, j)
    \/ \E op \in ops, net \in SwitchReplies : SendMessageSettles(op, net)
    \/ \E op \in ops, net \in SwitchReplies : CandidateActionSettles(op, net)
    \/ \E t \in cooldownTimers : CooldownExpires(t)
    \/ \E t \in intervals : IntervalTick(t)
    \/ \E f \in InFlight(fetches) : FetchSettles(f, TRUE)

SpecSwitch == InitOffer /\ [][NextSwitch]_vars

-----------------------------------------------------------------------------
(* Specification of the projects refetch: any response body *)

\* Projects of a response: each defaulted field present or missing
ApiProjects ==
    { ApiProject(id, name, participants, plan_steps) :
        id \in { Undefined, << "p" >> }, name \in { Undefined, << "n" >> },
        participants \in { Undefined, << "a" >> }, plan_steps \in { Undefined, << "s" >> } }

\* Entries of a map response: the key is always there
MapEntries(key) == { p \in ApiProjects : p.id = key }

\* Response bodies: a list, a map with keys p and q in either order, null
ProjectResponses ==
    { [ shape |-> "list", items |-> items ] : items \in SeqsUpTo(ApiProjects, MaxProjects) }
       \cup { [ shape |-> "map", items |-> << >> ] }
       \cup { [ shape |-> "map", items |-> << [ p EXCEPT !.id = key ] >> ] :
                 p \in MapEntries(<< "p" >>), key \in { << "p" >>, << "q" >> } }
       \cup { [ shape |-> "map",
                items |-> << [ p EXCEPT !.id = k[1] ], [ q EXCEPT !.id = k[2] ] >> ] :
                 p \in MapEntries(<< "p" >>), q \in MapEntries(<< "p" >>),
                 k \in { << << "p" >>, << "q" >> >>, << << "q" >>, << "p" >> >> } }
       \cup { [ shape |-> "null", items |-> << >> ] }

NextProjects ==
    \/ issued < MaxRefetches /\ Notify("projects")
    \/ \E f \in InFlight(fetches), data \in ProjectResponses : FetchProjectsSettles(f, data)
    \/ \E f \in InFlight(fetches) : FetchSettles(f, FALSE)

SpecProjects == InitData /\ [][NextProjects]_vars

-----------------------------------------------------------------------------
(* Specification of the guard of accept and reject: offers without a project id,
   actions without an agent *)

\* What the service offers: a candidate for the project '' and one for project p
GuardReplies ==
    { Net("ok", CandidateResponse(P, << "a" >>)) : P \in { << >>, << "p" >> } }

NextGuard ==
    \/ issued < MaxGuard /\ \E isInitialSelect \in BOOLEAN : Deselects(isInitialSelect)
    \/ issued < MaxGuard /\ ops = { } /\ HandleSendMessage(<< "find candidates" >>)
    \/ \E op \in ops, net \in GuardReplies : SendMessageSettles(op, net)
    \/ /\ issued < MaxGuard
       /\ \E i \in 1..Len(messages), j \in 1..MaxCandidates :
             HandleCandidateAction("accept", i, j)
    \/ /\ issued < MaxGuard
       /\ \E i \in 1..Len(messages), j \in 1..MaxCandidates :
             HandleCandidateAction("reject", i, j)
    \/ \E op \in ops : CandidateActionSettles(op, Net("ok", << "Done." >>))
    \/ \E t \in cooldownTimers : CooldownExpires(t)

SpecGuard == InitSelected /\ [][NextGuard]_vars

-----------------------------------------------------------------------------
(* Properties of the candidate negotiation *)

\* The number of next-step messages for project P in the chat
PromptCount(P) == Cardinality({ i \in 1..Len(messages) : messages[i].text = NextStepText(P) })

\* The candidate-selection messages created so far for project P
CreatedFor(P) == { c \in created : c.projectId = P }

\* Every candidate the message was created with has a completed accept or reject
AllSettled(c) ==
    \A n \in 1..Len(c.candidates) :
        \E s \in settled : s.messageId = c.id /\ s.candidateName = c.candidates[n]

\* C2: when the chat has one candidate-selection message for project P, created with
\* N >= 1 candidates, and an accept or reject has completed for each of them, the
\* chat contains exactly one next-step message for P.
OnePromptAfterAllCandidates ==
    \A c \in created :
        (/\ Cardinality(CreatedFor(c.projectId)) = 1
         /\ Len(c.candidates) >= 1
         /\ AllSettled(c))
        => PromptCount(c.projectId) = 1

\* A message created with two candidates, one accepted and one rejected, both completed
OnePromptAfterAllCandidatesWitness ==
    \E c \in created :
        /\ Cardinality(CreatedFor(c.projectId)) = 1
        /\ Len(c.candidates) = 2
        /\ AllSettled(c)
        /\ \E s, t \in settled :
              /\ s.messageId = c.id /\ t.messageId = c.id
              /\ s.kind = "accept" /\ t.kind = "reject"
              /\ s.candidateName # t.candidateName
        /\ PromptCount(c.projectId) = 1

\* C3: an exhaustion of a candidate-selection message that happens while the
\* cooldown of an earlier prompt for the same project is still pending emits no
\* second next-step prompt.
NoSecondPromptInCooldown == \A e \in exhaustions : e.inWindow => ~e.prompted

\* b is a subsequence of a
RECURSIVE IsSubsequence(_, _)
IsSubsequence(b, a) ==
    IF b = << >> THEN TRUE
    ELSE IF a = << >> THEN FALSE
    ELSE IF Head(a) = Head(b) THEN IsSubsequence(Tail(b), Tail(a))
    ELSE IsSubsequence(b, Tail(a))

\* C4: in every step, the candidates list of every candidate-selection message that
\* stays in the chat is a subsequence of the list it had before the step.
CandidatesOnlyShrink ==
    [][ \A i \in 1..Len(messages), k \in 1..Len(messages') :
          (/\ messages[i].id = messages'[k].id
           /\ messages[i].messageSubType = "candidate_selection")
          => IsSubsequence(messages'[k].candidates, messages[i].candidates) ]_vars

\* A message created with two candidates that has one of them left
CandidatesOnlyShrinkWitness ==
    \E c \in created, i \in 1..Len(messages) :
        /\ messages[i].id = c.id
        /\ Len(c.candidates) = 2
        /\ Len(messages[i].candidates) = 1
        /\ \E s \in settled : s.messageId = c.id

\* C5: a message enters the chat with promptIssued false, and in every step a
\* message whose promptIssued is true keeps it true.
PromptIssuedOneWay ==
    [][ \A k \in 1..Len(messages') :
          /\ ~HasId(messages, messages'[k].id) => ~messages'[k].promptIssued
          /\ \A i \in 1..Len(messages) :
                (messages[i].id = messages'[k].id /\ messages[i].promptIssued)
                => messages'[k].promptIssued ]_vars

\* A message whose flag is set and on which a further action completed afterwards:
\* its single candidate was both accepted and rejected
PromptIssuedOneWayWitness ==
    \E c \in created, i \in 1..Len(messages) :
        /\ messages[i].id = c.id
        /\ messages[i].promptIssued
        /\ Len(c.candidates) = 1
        /\ \E s, t \in settled :
              s.messageId = c.id /\ t.messageId = c.id /\ s.kind = "accept" /\ t.kind = "reject"

-----------------------------------------------------------------------------
(* Properties of the agent selection *)

\* C1: at most one room is joined, and the recorded room is unset or the id of the
\* active agent (so it is unset while no agent is active).
RoomInvariant ==
    /\ Cardinality(joined) <= 1
    /\ currentAgentRoom = NoRoom \/ currentAgentRoom = selectedAgent
    /\ selectedAgent = NoAgent => currentAgentRoom = NoRoom

\* The texts of the chat
Texts == { messages[i].text : i \in 1..Len(messages) }

\* C9: right after agent A was selected while no agent was active, the chat holds
\* "Context set to A" and the selection emitted one join_room for A and nothing else.
FirstSelectionJoins ==
    \A s \in { lastSelect[i] : i \in 1..Len(lastSelect) } :
        (s.acted /\ s.agent # NoAgent /\ s.prevAgent = NoAgent)
        => /\ << "Context set to ", s.agent >> \in Texts
           /\ s.emits = << Emit("join_room", s.agent) >>

\* C10: right after the operator switched from agent A, whose room was recorded and
\* joined, to another agent B, the selection emitted leave_room for A and then join_room for B,
\* and the chat is the single message "Switched context to B".
SwitchLeavesThenJoins ==
    \A s \in { lastSelect[i] : i \in 1..Len(lastSelect) } :
        (/\ ~s.isInitialSelect
         /\ s.agent # NoAgent /\ s.prevAgent # NoAgent /\ s.agent # s.prevAgent
         /\ s.prevRoom = s.prevAgent /\ s.prevAgent \in s.prevJoined)
        => /\ s.emits = << Emit("leave_room", s.prevAgent), Emit("join_room", s.agent) >>
           /\ Len(messages) = 1
           /\ messages[1].type = "system"
           /\ messages[1].text = << "Switched context to ", s.agent >>

\* The operator has just switched from A, joined, to B
SwitchLeavesThenJoinsWitness ==
    /\ lastSelect # None
    /\ ~lastSelect[1].isInitialSelect
    /\ lastSelect[1].prevAgent = "A" /\ lastSelect[1].agent = "B"
    /\ lastSelect[1].prevRoom = "A" /\ lastSelect[1].prevJoined = { "A" }
    /\ selectedAgent = "B" /\ joined = { "B" }

-----------------------------------------------------------------------------
(* Properties of the progress indicator and of the command gateway *)

\* C6: a call of removeLoadingIndicator with an id the chat does not hold leaves the
\* chat as it was; a second call in a row with the same id leaves the chat as the
\* first left it, and the two together remove at most one message.
HideIdempotent ==
    \A h \in { lastHide[i] : i \in 1..Len(lastHide) } :
        /\ messages = h.after
        /\ ~HasId(h.before, h.id) => h.after = h.before
        /\ h.again => h.after = h.before
        /\ Len(h.origin) - Len(h.after) <= 1
        /\ IsSubsequence(h.after, h.origin)

\* The second of two calls with the id of a placeholder the first call removed
HideIdempotentWitness ==
    /\ lastHide # None
    /\ lastHide[1].again
    /\ HasId(lastHide[1].origin, lastHide[1].id)
    /\ Len(lastHide[1].origin) - Len(messages) = 1
    /\ Len(messages) >= 1

\* The replies the gateway has just appended, with the response they answer
Replies == { lastReply[i] : i \in 1..Len(lastReply) }

\* The reply is a plain agent message with this text
IsPlain(reply, text) ==
    reply.type = "agent" /\ reply.messageSubType = "none" /\ reply.text = text

\* C7: right after a success response "<prefix>P':<JSON list>" the chat ends with a
\* candidate_selection agent message with projectId P and the candidates of the
\* list; right after a success response "<prefix>P':<invalid JSON>" it ends with a
\* plain agent message whose text is the response.
CandidateOfferRoundTrip ==
    \A r \in Replies :
        r.net.kind = "ok" =>
            /\ messages[Len(messages)] = r.reply
            /\ \A P \in GateNames, names \in CandidateLists :
                  r.net.text = CandidateResponse(P, names)
                  => /\ r.reply.type = "agent"
                     /\ r.reply.messageSubType = "candidate_selection"
                     /\ r.reply.projectId = P
                     /\ r.reply.candidatesKind = "list"
                     /\ r.reply.candidates = names
            /\ \A P \in GateNames, payload \in InvalidPayloads :
                  r.net.text = candidatePrefix \o P \o Terminator \o payload
                  => IsPlain(r.reply, r.net.text)

\* Responses "<prefix>P':<JSON list>", for any P without quote
WellFormedResponses ==
    { candidatePrefix \o P \o Terminator \o payload :
        P \in SeqsUpTo(NameChars \ { "'" }, MaxNameLen), payload \in ListPayloads }

\* Responses with the prefix whose remainder is not a candidate list: the
\* terminator is missing, or the JSON is invalid, or it is not a list
MalformedResponses ==
    ({ candidatePrefix \o P \o sep \o payload :
         P \in GateNames, sep \in GateSeparators \ { Terminator }, payload \in GatePayloads }
       \cup { candidatePrefix \o P \o Terminator \o payload :
                P \in GateNames, payload \in InvalidPayloads \cup NonListPayloads })
       \ WellFormedResponses

\* C8: right after a success response that has the prefix and a malformed remainder
\* the chat ends with a plain agent message whose text is the response.
MalformedDegradesToPlain ==
    \A r \in Replies :
        (r.net.kind = "ok" /\ r.net.text \in MalformedResponses)
        => /\ messages[Len(messages)] = r.reply
           /\ IsPlain(r.reply, r.net.text)

-----------------------------------------------------------------------------
(* Properties of failing commands *)

\* The messages appended since the command of `op` put its user message in the chat
Since(op) == SelectSeq(messages, LAMBDA m : m.id > op.uid)

\* C11: right after a typed command whose request was rejected by the transport has
\* completed, the chat holds, after the command's user message, one message only, a
\* system message with the error's text, and the command's placeholder is gone.
TransportFailureOneError ==
    \A r \in Replies :
        (r.op.kind = "send" /\ r.net.kind = "throw")
        => /\ Len(Since(r.op)) = 1
           /\ Since(r.op)[1].type = "system"
           /\ Since(r.op)[1].text = r.net.text
           /\ ~HasId(messages, r.op.loadingId)
           /\ \A i \in 1..Len(messages) : ~messages[i].isLoadingPlaceholder

\* A typed command has just failed in the transport
TransportFailureOneErrorWitness ==
    /\ lastReply # None
    /\ lastReply[1].op.kind = "send"
    /\ lastReply[1].net.kind = "throw"
    /\ messages[Len(messages)].text = << "Failed to fetch" >>
    /\ lastHide # None /\ HasId(lastHide[1].before, lastReply[1].op.loadingId)

\* The error text the operator is shown for a failed request
UpstreamText(net) ==
    CASE net.kind = "throw" -> net.text
      [] net.kind = "status" ->
            IF net.text # << >> THEN net.text ELSE << "HTTP error! status: 500" >>
      [] OTHER -> << "Agent error: " >> \o net.text

\* C16: right after a request has failed (transport, status, or error field) the
\* reply the gateway appended is one system message with the upstream text, or the
\* generic text when there is none, and no agent message was appended for it.
FailureOneSystemMessage ==
    \A r \in Replies :
        r.net.kind \in { "throw", "status", "error" }
        => /\ r.reply.type = "system"
           /\ r.reply.text = UpstreamText(r.net)
           /\ messages[Len(messages)] = r.reply
           /\ \A i \in 1..Len(Since(r.op)) :
                 Since(r.op)[i].type = "agent" => Since(r.op)[i].isLoadingPlaceholder
           /\ Cardinality({ i \in 1..Len(Since(r.op)) : Since(r.op)[i].type = "system" }) = 1

\* A request has just come back with a non-success status and no error text
FailureOneSystemMessageWitness ==
    /\ lastReply # None
    /\ lastReply[1].net = Net("status", << >>)
    /\ messages[Len(messages)].type = "system"

-----------------------------------------------------------------------------
(* Properties of deselection and of the initial selection *)

\* The calls of handleAgentSelect that have just been made
Selections == { lastSelect[i] : i \in 1..Len(lastSelect) }

\* C12: right after a deselection no agent is active, the chat and the caches are
\* empty, and the recorded room is unset, with one leave_room emitted for the room
\* that was recorded and none when no room was.
DeselectionClears ==
    \A s \in Selections :
        s.agent = NoAgent
        => /\ selectedAgent = NoAgent
           /\ messages = << >>
           /\ caches = EmptyCaches
           /\ currentAgentRoom = NoRoom
           /\ s.emits = IF s.prevRoom # NoRoom THEN << Emit("leave_room", s.prevRoom) >>
                        ELSE << >>

\* C14: an initial selection that selects an agent happens only while no agent is
\* active, and it selects the first agent of the list.
InitialSelectionOnlyWhenNone ==
    \A s \in Selections :
        (s.isInitialSelect /\ s.acted /\ s.agent # NoAgent)
        => /\ s.prevAgent = NoAgent
           /\ agents # << >> /\ s.agent = agents[1]

\* C13: selecting the agent that is already active, not flagged as initial, changes
\* nothing: agent, chat, room, membership and caches stay, nothing is emitted and
\* nothing is fetched.
ReselectChangesNothing ==
    \A s \in Selections :
        (s.agent # NoAgent /\ s.agent = s.prevAgent /\ ~s.isInitialSelect)
        => /\ ~s.acted
           /\ s.emits = << >>
           /\ s.fetched = { }
           /\ selectedAgent = s.prevAgent
           /\ messages = s.prevMessages
           /\ currentAgentRoom = s.prevRoom
           /\ joined = s.prevJoined
           /\ caches = s.prevCaches

\* The active agent is selected again while its chat has grown and a cache holds
\* something other than its data
ReselectChangesNothingWitness ==
    \E s \in Selections :
        /\ s.agent # NoAgent /\ s.agent = s.prevAgent /\ ~s.isInitialSelect
        /\ s.agent = "B"
        /\ \E k \in CacheKinds : caches[k] # "B"

-----------------------------------------------------------------------------
(* Properties of the data mirror *)

Notifications == { lastNotify[i] : i \in 1..Len(lastNotify) }

\* C15: a push notification refetches its kind of data for the agent that is
\* active when it is handled, and fetches nothing when no agent is active.
NotificationRefetchesActive ==
    \A n \in Notifications :
        n.fetched = IF n.agent # NoAgent THEN { Fetch(n.kind, n.agent) } ELSE { }

\* A notification is handled after the operator switched to B, and one after the
\* agent was deselected
NotificationRefetchesActiveWitness ==
    \E n \in Notifications : n.agent = "B" /\ n.fetched = { Fetch(n.kind, "B") }

-----------------------------------------------------------------------------
(* Properties of commands without an agent and of commands that fail *)

Attempts == { lastAttempt[i] : i \in 1..Len(lastAttempt) }

\* C17: right after a command is attempted while no agent is active (a typed
\* command that is not blank, a project creation, an accept or a reject), the
\* chat is the chat before plus one system message, and no request was sent.
NoAgentCommandReported ==
    \A a \in Attempts :
        (a.agent = NoAgent /\ (a.kind = "send" => Trim(a.text) # << >>))
        => /\ ops = a.ops
           /\ Len(messages) = Len(a.messages) + 1
           /\ SubSeq(messages, 1, Len(a.messages)) = a.messages
           /\ messages[Len(messages)].type = "system"

\* The candidates lists of the candidate-selection messages of a chat
OfferedCandidates(msgs) ==
    { << msgs[i].id, msgs[i].candidates >> :
        i \in { k \in 1..Len(msgs) : msgs[k].messageSubType = "candidate_selection" } }

\* C18: right after the request of a command failed (transport failure or error
\* field), the agent, the recorded room, the processed message ids, the cooldown
\* set and every candidates list are as the completion found them, and the chat
\* has gained exactly the error message.
FailedCommandOnlyReports ==
    \A r \in Replies :
        r.net.kind # "ok"
        => /\ selectedAgent = r.before.selectedAgent
           /\ currentAgentRoom = r.before.currentAgentRoom
           /\ promptedCandidateMessageIdsRef = r.before.promptedCandidateMessageIds
           /\ recentlyPromptedProjectIds = r.before.recentlyPromptedProjectIds
           /\ OfferedCandidates(messages) = OfferedCandidates(r.before.messages)

-----------------------------------------------------------------------------
(* Properties of the progress indicator *)

\* The list entry the k-th tick writes according to the rule: the entry k places
\* after the initial text if that is an entry, else the entry k places after the
\* first one (wrapping around)
ExpectedTick(initial, k) ==
    LET L == projectPlanningMessages
        hits == { i \in 1..Len(L) : L[i] = initial }
        start == IF hits = { } THEN 1 ELSE Min(hits)
    IN  L[((start - 1 + k) % Len(L)) + 1]

\* C19: once a timer has ticked, its placeholder shows the entry the rule gives
\* for the indicator's initial text and the number of ticks.
CyclingFollowsInitialText ==
    \A t \in intervals :
        t.ticks > 0
        => \A i \in 1..Len(messages) :
              messages[i].id = t.target
              => messages[i].text = << ExpectedTick(t.initial, t.ticks) >>

\* C20: at most one cycling timer is live and no two live timers rewrite the same
\* placeholder; an indicator armed while a timer was live leaves none of the
\* timers that were live.
OneCyclingTimer ==
    /\ Cardinality(intervals) <= 1
    /\ \A t, u \in intervals : t.target = u.target => t = u
    /\ \A a \in Attempts :
          (\E t \in intervals : \A u \in a.intervals : u.timer # t.timer)
          => \A t \in intervals, u \in a.intervals : u.timer # t.timer

\* A multi-step indicator has just been started while the timer of another one,
\* whose command is still in flight, was live
OneCyclingTimerWitness ==
    \E a \in Attempts :
        /\ \E u \in a.intervals, op \in a.ops : op.loadingId = u.target
        /\ \E t \in intervals : \A u \in a.intervals : u.timer # t.timer

-----------------------------------------------------------------------------
(* Properties of accept and reject *)

\* C22: right after an accept or reject that goes ahead, the chat has gained one
\* user message, "Action: Adding ..." for accept and "Action: Rejecting ..." for
\* reject, and one request is in flight: "add c to project P" for accept, a text
\* that is no add command for reject.
AcceptAddsRejectLogs ==
    \A a \in Attempts :
        (a.kind \in { "accept", "reject" } /\ ops # a.ops)
        => \E op \in ops \ a.ops :
              LET entry == messages[Len(messages)]
              IN  /\ ops = a.ops \cup { op }
                  /\ op.kind = a.kind
                  /\ op.candidateName = a.text[1]
                  /\ messages = Append(a.messages, entry)
                  /\ entry.type = "user"
                  /\ entry.text[1] = IF a.kind = "accept" THEN "Action: Adding "
                                     ELSE "Action: Rejecting "
                  /\ entry.text[2] = op.candidateName
                  /\ IF a.kind = "accept"
                     THEN op.text = << "add ", op.candidateName, " to project " >>
                                       \o op.projectId
                     ELSE op.text[1] # "add "

\* A reject has just been made for candidate b of project p
AcceptAddsRejectLogsWitness ==
    \E a \in Attempts :
        /\ a.kind = "reject" /\ a.text = << "b" >>
        /\ \E op \in ops \ a.ops : op.kind = "reject" /\ op.projectId = << "p" >>

\* The names in a candidates list
Names(candidates) == { candidates[k] : k \in 1..Len(candidates) }

\* C24: a candidate whose accept or reject has completed is in no candidates list
\* of the message it belongs to, in whatever order overlapping actions complete.
NoLostCandidateUpdate ==
    \A s \in settled, i \in 1..Len(messages) :
        (messages[i].id = s.messageId /\ messages[i].messageSubType = "candidate_selection")
        => s.candidateName \notin Names(messages[i].candidates)

\* Two actions on the two candidates of one message were started one right after
\* the other, before either reply arrived, and both have completed
NoLostCandidateUpdateWitness ==
    /\ ops = { }
    /\ \E i \in 1..(Len(messages) - 1), s, t \in settled :
          /\ messages[i].type = "user" /\ messages[i + 1].type = "user"
          /\ Len(messages[i].text) >= 2 /\ Len(messages[i + 1].text) >= 2
          /\ messages[i].text[2] = s.candidateName
          /\ messages[i + 1].text[2] = t.candidateName
          /\ s.candidateName # t.candidateName
          /\ s.messageId = t.messageId
          /\ \E k \in 1..Len(messages) :
                messages[k].id = s.messageId /\ messages[k].candidates = << >>

\* C27: an exhaustion that happens while the project is in the cooldown set emits
\* no prompt, and still records the message id and sets promptIssued on the message.
ExhaustedInCooldownSilent ==
    \A e \in exhaustions :
        e.inCooldown
        => /\ ~e.prompted
           /\ e.messageId \in promptedCandidateMessageIdsRef
           /\ \A i \in 1..Len(messages) :
                 messages[i].id = e.messageId => messages[i].promptIssued

\* C28: a project is in the cooldown set only while an eviction for it is pending,
\* and an exhaustion that happens while the project is not in the cooldown set
\* emits a prompt.
CooldownEndsAndPromptsAgain ==
    /\ \A P \in recentlyPromptedProjectIds : PendingFor(P)
    /\ \A e \in exhaustions : (~e.inCooldown /\ ~Falsy(e.projectId)) => e.prompted

-----------------------------------------------------------------------------
(* Properties of the sequence of a command *)

\* A project finalization or a project creation, by the text of the command
IsLongRunning(text) ==
    StartsWith(text, << "finalize project " >>) \/ StartsWith(text, << "project " >>)

\* C29: right after a command is sent its placeholder is in the chat; for a
\* finalization or a creation a timer cycles it, for any other command it reads
\* "Thinking..." and no timer cycles it.
IndicatorMatchesCommand ==
    \A a \in Attempts :
        ops # a.ops
        => \E op \in ops \ a.ops :
              \E i \in 1..Len(messages) :
                  /\ messages[i].id = op.loadingId
                  /\ messages[i].isLoadingPlaceholder
                  /\ IF IsLongRunning(op.text)
                     THEN \E t \in intervals : t.target = op.loadingId
                     ELSE /\ messages[i].text = << "Thinking..." >>
                          /\ \A t \in intervals : t.target # op.loadingId

\* C30: while the request of a command is in flight, the user message of the
\* command and, after it, the placeholder of the command are in the chat.
PlaceholderWhileInFlight ==
    \A op \in ops :
        \E i, k \in 1..Len(messages) :
            /\ i < k
            /\ messages[i].id = op.uid /\ messages[i].type = "user"
            /\ messages[k].id = op.loadingId /\ messages[k].isLoadingPlaceholder

-----------------------------------------------------------------------------
(* Properties of commands that complete after an agent switch *)

\* C21: when no command is in flight, no placeholder is in the chat and no cycling
\* timer is live.
NoLeakWhenIdle ==
    ops = { }
    => /\ intervals = { }
       /\ \A i \in 1..Len(messages) : ~messages[i].isLoadingPlaceholder

\* The last command in flight, a finalization typed for A, has just completed with
\* a failure after the operator switched to B
NoLeakWhenIdleWitness ==
    /\ ops = { }
    /\ \E r \in Replies :
          /\ IsFinalizingProject(r.op.text)
          /\ r.net.kind = "throw"
          /\ r.op.agent = "A" /\ selectedAgent = "B"

\* C23: the reply or error of a command is appended to the message list that is
\* current when it arrives: the chat is that list, less the placeholder of the
\* command, followed by the reply (and by what the completion appends after it).
ReplyJoinsCurrentChat ==
    \A r \in Replies :
        LET kept == RemoveById(r.before.messages, r.op.loadingId)
        IN  /\ Len(messages) > Len(kept)
            /\ \A k \in 1..Len(kept) : messages[k].id = kept[k].id
            /\ messages[Len(kept) + 1] = r.reply

\* The reply of a command sent for A has arrived after the switch to B: it follows
\* the context message of B
ReplyJoinsCurrentChatWitness ==
    \E r \in Replies :
        /\ r.op.kind = "send" /\ r.op.agent = "A" /\ selectedAgent = "B"
        /\ Len(messages) = 2
        /\ messages[1].text = << "Switched context to ", "B" >>
        /\ messages[2] = r.reply

\* The promptIssued flags of the candidate-selection messages of a chat
PromptFlags(msgs) ==
    { << msgs[i].id, msgs[i].promptIssued >> :
        i \in { k \in 1..Len(msgs) : msgs[k].messageSubType = "candidate_selection" } }

\* An accept or reject finds the message it was made on
FindsMessage(r) ==
    \E i \in 1..Len(r.before.messages) :
        /\ r.before.messages[i].id = r.op.messageId
        /\ r.before.messages[i].messageSubType = "candidate_selection"
        /\ r.before.messages[i].candidatesKind = "list"

\* C26: an accept or reject that completes when its message is not in the chat
\* changes no candidates list and no promptIssued flag, records no message id,
\* adds no project to the cooldown set, and appends the reply only.
StaleActionIsNoop ==
    \A r \in Replies :
        (r.op.kind \in { "accept", "reject" } /\ ~FindsMessage(r))
        => /\ OfferedCandidates(messages) = OfferedCandidates(r.before.messages)
           /\ PromptFlags(messages) = PromptFlags(r.before.messages)
           /\ promptedCandidateMessageIdsRef = r.before.promptedCandidateMessageIds
           /\ recentlyPromptedProjectIds = r.before.recentlyPromptedProjectIds
           /\ messages = Append(r.before.messages, r.reply)

\* An accept made on the offer in the chat of A completes in the chat of B
StaleActionIsNoopWitness ==
    \E r \in Replies :
        /\ r.op.kind = "accept" /\ ~FindsMessage(r)
        /\ r.op.agent = "A" /\ selectedAgent = "B"
        /\ r.before.messages # << >>

-----------------------------------------------------------------------------
(* Properties of the projects refetch *)

Normalisations == { lastProjects[i] : i \in 1..Len(lastProjects) }

IsMissing(v) == v = Undefined

\* C25: the list made of a list or a map response has one project per entry, in
\* order; participants and plan_steps are lists; an id that was missing is the
\* name, and a name that was missing is the id.
ProjectsNormalised ==
    \A n \in Normalisations :
        n.data.shape \in { "list", "map" }
        => /\ Len(n.projects) = Len(n.data.items)
           /\ \A i \in 1..Len(n.projects) :
                 LET src == n.data.items[i]
                     out == n.projects[i]
                 IN  /\ ~IsMissing(out.participants)
                     /\ ~IsMissing(out.plan_steps)
                     /\ ~IsMissing(src.participants) => out.participants = src.participants
                     /\ ~IsMissing(src.plan_steps) => out.plan_steps = src.plan_steps
                     /\ IsMissing(src.id) => out.id = src.name
                     /\ IsMissing(src.name) => out.name = src.id

-----------------------------------------------------------------------------
(* Properties of overlapping indicators *)

\* C31: in every step in which a command completes, a live timer whose placeholder
\* belongs to another command that is still in flight stays live.
CompletionKeepsOtherTimer ==
    [][ (ops' # ops /\ ops' \subseteq ops)
        => \A t \in intervals :
              (\E op \in ops' : op.loadingId = t.target)
              => \E u \in intervals' : u.timer = t.timer ]_vars

-----------------------------------------------------------------------------
(* Properties of late responses of the data requests *)

\* C32: while no agent is active the caches are empty, and in every step in which a
\* request made for an agent other than the active one completes, the caches stay
\* as they are.
StaleFetchNotWritten ==
    /\ [](selectedAgent = NoAgent => caches = EmptyCaches)
    /\ [][ \A f \in DOMAIN fetches :
              (fetches'[f] < fetches[f] /\ f[2] # selectedAgent) => caches' = caches ]_vars

-----------------------------------------------------------------------------
(* Properties of repeated actions on one candidate *)

\* C33: no two accept or reject commands for the same candidate of the same
\* message are in flight at once.
OneActionPerCandidate ==
    \A o, q \in ops :
        (/\ o.kind \in { "accept", "reject" } /\ q.kind \in { "accept", "reject" }
         /\ o.messageId = q.messageId
         /\ o.candidateName = q.candidateName)
        => o = q

-----------------------------------------------------------------------------
(* Properties of the room of the active agent *)

\* C34: whenever an agent is active and a connection has been opened, the recorded
\* room is the id of the active agent and the open connection is a member of it.
ActiveRoomJoined ==
    (selectedAgent # NoAgent /\ socket # 0)
    => /\ currentAgentRoom = selectedAgent
       /\ socket = liveSocket
       /\ selectedAgent \in joined

-----------------------------------------------------------------------------
(* Properties of candidate-selection messages without candidates *)

\* C35: every candidate-selection message of the chat whose candidates list is
\* empty has its id among the processed message ids and has promptIssued set.
EmptyOfferProcessed ==
    \A i \in 1..Len(messages) :
        (/\ messages[i].messageSubType = "candidate_selection"
         /\ messages[i].candidatesKind = "list"
         /\ messages[i].candidates = << >>)
        => /\ messages[i].id \in promptedCandidateMessageIdsRef
           /\ messages[i].promptIssued

-----------------------------------------------------------------------------
(* Properties of timers and the chat *)

\* C36: the placeholder every live cycling timer rewrites is in the chat.
LiveTimerHasPlaceholder ==
    \A t \in intervals : HasId(messages, t.target)

-----------------------------------------------------------------------------
(* Properties of the guard of accept and reject *)

\* The offers of a chat that hold the candidate
OffersOf(msgs, candidateName) ==
    { i \in 1..Len(msgs) : /\ msgs[i].messageSubType = "candidate_selection"
                           /\ candidateName \in Names(msgs[i].candidates) }

\* The action was made while no agent was active, or on a message without project id
Unguarded(a) ==
    \/ a.agent = NoAgent
    \/ \A i \in OffersOf(a.messages, a.text[1]) :
          a.messages[i].projectId \in { Undefined, << >> }

\* C37: right after an accept or reject made while no agent is active, or on a
\* message whose projectId is missing or empty, the chat is the chat before plus one
\* system message with the error text (so no user log entry was appended and no
\* candidates list changed), and no request was sent.
GuardedActionOnlyReports ==
    \A a \in Attempts :
        (a.kind \in { "accept", "reject" } /\ Unguarded(a))
        => /\ ops = a.ops
           /\ Len(messages) = Len(a.messages) + 1
           /\ SubSeq(messages, 1, Len(a.messages)) = a.messages
           /\ messages[Len(messages)].type = "system"
           /\ messages[Len(messages)].text = MissingText

\* An accept has just been made on the offer for the project '' while agent A is
\* active and a command is in flight
GuardedActionOnlyReportsWitness ==
    \E a \in Attempts :
        /\ a.kind = "accept" /\ a.agent = "A"
        /\ OffersOf(a.messages, a.text[1]) # { }
        /\ \A i \in OffersOf(a.messages, a.text[1]) : a.messages[i].projectId = << >>
        /\ messages[Len(messages)].text = MissingText

-----------------------------------------------------------------------------
(* Properties of the initial selection and the chat *)

\* C38: right after an initial selection of an agent that found messages in the
\* chat, the chat is as the selection found it.
InitialSelectionKeepsChat ==
    \A s \in Selections :
        (s.isInitialSelect /\ s.acted /\ s.agent # NoAgent /\ s.prevMessages # << >>)
        => messages = s.prevMessages

=============================================================================
